---- MODULE Spec2Model ----
(***************************************************************************)
(* Vending machine: the account store (user.py, ./user_db.csv), the        *)
(* catalog store (product.py, ./product_db.csv) and the purchase           *)
(* transaction buy_product.                                                *)
(*                                                                         *)
(* A csv file is a record [hdr, rows]: hdr is FALSE for the zero-byte file *)
(* (pd.read_csv raises EmptyDataError on it) and TRUE once a header line   *)
(* has been written; rows is the sequence of data rows in file order.      *)
(* Every store function is an operator from the file(s) it reads to the    *)
(* file it writes, the exception it raises ("ok" for none) and the value   *)
(* it returns.                                                             *)
(***************************************************************************)
EXTENDS Integers, Sequences, FiniteSets, TLC

\* ---------------------------------------------------------------- bounds
\* largest deposit an account is driven to, in units of the smallest coin
MaxUnits == 3
\* largest amountAvailable a product is driven to
MaxStock == 2
\* largest no_of_products requested
MaxQty == 2
\* largest amount handed to the change-making loop
MaxAmount == 120
\* largest deposit the deposit calls run on their own drive an account to, in
\* units of the smallest coin
MaxDepositUnits == 21

\* ---------------------------------------------------------------- inputs
UserNames == {"ann", "bob"}
\* the accounts that register: (username, role)
Accounts == {<<"ann", "buyer">>, <<"bob", "seller">>}
ProductNames == {"apple"}
\* the ids random.choice draws; a new row gets one that no stored row holds
UserIds == {"u1", "u2"}
ProductIds == {"p1", "p2"}
\* an id that names no stored row
NoId == "none"
CostInputs == {0, 3, 5, 15}
DepositInputs == {3, 5, 10}
NewPasswords == {"pw2"}
QtyInputs == {-1, 0, 1, MaxQty}
StockInputs == {-1, 0, 1, MaxStock}

SELLER == "seller"
BUYER == "buyer"
Roles == {BUYER, SELLER}

\* ------------------------------------------------------------ csv helpers
EmptyFile == [hdr |-> FALSE, rows |-> <<>>]

\* pd_dataframe[pd_dataframe[col] == value]
RowsWhere(rows, P(_)) == SelectSeq(rows, P)

\* index of the first row satisfying P (0 when there is none)
FirstIndex(rows, P(_)) ==
    IF \E i \in 1..Len(rows) : P(rows[i])
    THEN CHOOSE i \in 1..Len(rows) : P(rows[i]) /\ \A j \in 1..(i - 1) : ~P(rows[j])
    ELSE 0

\* pd_dataframe.drop(index=...): the rows without row i
DropRow(rows, i) == SubSeq(rows, 1, i - 1) \o SubSeq(rows, i + 1, Len(rows))

\* pd_dataframe.loc[mask, [col]] = f(row), applied to every row of the mask
MapWhere(rows, P(_), F(_)) == [k \in 1..Len(rows) |-> IF P(rows[k]) THEN F(rows[k]) ELSE rows[k]]

WriteCsv(rows) == [hdr |-> TRUE, rows |-> rows]

\* ---------------------------------------------------------------- user.py
NoUser == [id |-> NoId, username |-> "", password |-> "", deposit |-> 0, role |-> ""]

\* UserModel(**row): the pydantic validators of the stored fields
UserModelOk(row) == row.deposit >= 0

UserResult(db, err, user) == [db |-> db, err |-> err, user |-> user]

get_user(db, username) ==
    IF ~db.hdr THEN UserResult(db, "EmptyDataError", NoUser)
    ELSE LET m == RowsWhere(db.rows, LAMBDA r : r.username = username) IN
         IF m = <<>> THEN UserResult(db, "UserNotFoundException", NoUser)
         ELSE IF ~UserModelOk(m[1]) THEN UserResult(db, "ValidationError", NoUser)
         ELSE UserResult(db, "ok", m[1])

create_new_user(db, username, password, role, id) ==
    LET data == [id |-> id, username |-> username, password |-> password,
                 deposit |-> 0, role |-> role]
        g == get_user(db, username)
    IN  IF g.err \in {"UserNotFoundException", "EmptyDataError"}
        THEN UserResult(WriteCsv(Append(db.rows, data)), "ok", data)
        ELSE UserResult(db, "UserNotCreatedException", NoUser)

\* password=None: the default of update_password, which leaves the column alone
NoPassword == "None"

\* hash_password(password) of user_utils.py returns the password itself
hash_password(password) == password

\* mutant: the new password is written to every row
update_password_every_row(db, username, password) ==
    IF ~db.hdr THEN UserResult(db, "UserNotUpdatedException", NoUser)
    ELSE LET rows == MapWhere(db.rows, LAMBDA r : password # NoPassword,
                              LAMBDA r : [r EXCEPT !.password = hash_password(password)])
             m == RowsWhere(rows, LAMBDA r : r.username = username)
         IN  IF m = <<>> THEN UserResult(WriteCsv(rows), "UserNotFoundException", NoUser)
             ELSE IF ~UserModelOk(m[1])
                  THEN UserResult(WriteCsv(rows), "UserNotUpdatedException", NoUser)
             ELSE UserResult(WriteCsv(rows), "ok", m[1])

update_password(db, username, password) ==
    IF ~db.hdr THEN UserResult(db, "UserNotUpdatedException", NoUser)
    ELSE LET rows == MapWhere(db.rows,
                              LAMBDA r : password # NoPassword /\ r.username = username,
                              LAMBDA r : [r EXCEPT !.password = hash_password(password)])
             m == RowsWhere(rows, LAMBDA r : r.username = username)
         IN  IF m = <<>> THEN UserResult(WriteCsv(rows), "UserNotFoundException", NoUser)
             ELSE IF ~UserModelOk(m[1])
                  THEN UserResult(WriteCsv(rows), "UserNotUpdatedException", NoUser)
             ELSE UserResult(WriteCsv(rows), "ok", m[1])

\* mutant: the coin replaces the stored deposit instead of being added to it
deposit_amount_overwrites(db, username, deposit) ==
    IF ~db.hdr THEN UserResult(db, "UserNotUpdatedException", NoUser)
    ELSE LET old == RowsWhere(db.rows, LAMBDA r : r.username = username) IN
         IF old = <<>> THEN UserResult(db, "UserNotFoundException", NoUser)
         ELSE IF old[1].role # BUYER THEN UserResult(db, "UserNotUpdatedException", NoUser)
         ELSE IF deposit # 0 /\ deposit \notin {5, 10, 20, 50, 100}
              THEN UserResult(db, "UserNotUpdatedException", NoUser)
         ELSE LET rows == IF deposit # 0
                          THEN MapWhere(db.rows, LAMBDA r : r.username = username,
                                        LAMBDA r : [r EXCEPT !.deposit = deposit])
                          ELSE db.rows
                  m == RowsWhere(rows, LAMBDA r : r.username = username)
              IN  IF ~UserModelOk(m[1])
                  THEN UserResult(WriteCsv(rows), "UserNotUpdatedException", NoUser)
                  ELSE UserResult(WriteCsv(rows), "ok", m[1])

\* mutant: every positive amount is accepted as a coin
deposit_amount_any_amount(db, username, deposit) ==
    IF ~db.hdr THEN UserResult(db, "UserNotUpdatedException", NoUser)
    ELSE LET old == RowsWhere(db.rows, LAMBDA r : r.username = username) IN
         IF old = <<>> THEN UserResult(db, "UserNotFoundException", NoUser)
         ELSE IF old[1].role # BUYER THEN UserResult(db, "UserNotUpdatedException", NoUser)
         ELSE IF deposit < 0
              THEN UserResult(db, "UserNotUpdatedException", NoUser)
         ELSE LET rows == IF deposit # 0
                          THEN MapWhere(db.rows, LAMBDA r : r.username = username,
                                        LAMBDA r : [r EXCEPT !.deposit = @ + deposit])
                          ELSE db.rows
                  m == RowsWhere(rows, LAMBDA r : r.username = username)
              IN  IF ~UserModelOk(m[1])
                  THEN UserResult(WriteCsv(rows), "UserNotUpdatedException", NoUser)
                  ELSE UserResult(WriteCsv(rows), "ok", m[1])

deposit_amount(db, username, deposit) ==
    IF ~db.hdr THEN UserResult(db, "UserNotUpdatedException", NoUser)
    ELSE LET old == RowsWhere(db.rows, LAMBDA r : r.username = username) IN
         IF old = <<>> THEN UserResult(db, "UserNotFoundException", NoUser)
         ELSE IF old[1].role # BUYER THEN UserResult(db, "UserNotUpdatedException", NoUser)
         ELSE IF deposit # 0 /\ deposit \notin {5, 10, 20, 50, 100}
              THEN UserResult(db, "UserNotUpdatedException", NoUser)
         ELSE LET rows == IF deposit # 0
                          THEN MapWhere(db.rows, LAMBDA r : r.username = username,
                                        LAMBDA r : [r EXCEPT !.deposit = @ + deposit])
                          ELSE db.rows
                  m == RowsWhere(rows, LAMBDA r : r.username = username)
              IN  IF ~UserModelOk(m[1])
                  THEN UserResult(WriteCsv(rows), "UserNotUpdatedException", NoUser)
                  ELSE UserResult(WriteCsv(rows), "ok", m[1])

\* deposit_amount called on the frame db reaches its write_to_csv (lines 195-217)
deposit_amount_writes(db, username, deposit) ==
    /\ db.hdr
    /\ \E i \in 1..Len(db.rows) : db.rows[i].username = username
    /\ RowsWhere(db.rows, LAMBDA r : r.username = username)[1].role = BUYER
    /\ deposit = 0 \/ deposit \in {5, 10, 20, 50, 100}

\* mutant: the debit is applied to every row, not to the rows of the username
deduct_amount_every_row(db, username, amount) ==
    IF ~db.hdr THEN UserResult(db, "UserNotUpdatedException", NoUser)
    ELSE LET old == RowsWhere(db.rows, LAMBDA r : r.username = username) IN
         IF old = <<>> THEN UserResult(db, "UserNotFoundException", NoUser)
         ELSE IF old[1].role # BUYER THEN UserResult(db, "UserNotUpdatedException", NoUser)
         ELSE IF amount = 0 THEN UserResult(db, "UserNotUpdatedException", NoUser)
         ELSE LET rows == MapWhere(db.rows, LAMBDA r : TRUE,
                                   LAMBDA r : [r EXCEPT !.deposit = @ - amount])
                  m == RowsWhere(rows, LAMBDA r : r.username = username)
              IN  IF ~UserModelOk(m[1])
                  THEN UserResult(WriteCsv(rows), "UserNotUpdatedException", NoUser)
                  ELSE UserResult(WriteCsv(rows), "ok", m[1])

deduct_amount(db, username, amount) ==
    IF ~db.hdr THEN UserResult(db, "UserNotUpdatedException", NoUser)
    ELSE LET old == RowsWhere(db.rows, LAMBDA r : r.username = username) IN
         IF old = <<>> THEN UserResult(db, "UserNotFoundException", NoUser)
         ELSE IF old[1].role # BUYER THEN UserResult(db, "UserNotUpdatedException", NoUser)
         \* amount == 0: user_df is never bound, the return raises UnboundLocalError
         ELSE IF amount = 0 THEN UserResult(db, "UserNotUpdatedException", NoUser)
         ELSE LET rows == MapWhere(db.rows, LAMBDA r : r.username = username,
                                   LAMBDA r : [r EXCEPT !.deposit = @ - amount])
                  m == RowsWhere(rows, LAMBDA r : r.username = username)
              IN  IF ~UserModelOk(m[1])
                  THEN UserResult(WriteCsv(rows), "UserNotUpdatedException", NoUser)
                  ELSE UserResult(WriteCsv(rows), "ok", m[1])

\* deduct_amount called on the frame db reaches its write_to_csv (lines 246-263)
deduct_amount_writes(db, username, amount) ==
    /\ db.hdr
    /\ \E i \in 1..Len(db.rows) : db.rows[i].username = username
    /\ RowsWhere(db.rows, LAMBDA r : r.username = username)[1].role = BUYER
    /\ amount # 0

reset_deposit(db, username) ==
    IF ~db.hdr THEN UserResult(db, "EmptyDataError", NoUser)
    \* ...["role"][0] looks up index label 0 of the filtered rows
    ELSE IF db.rows = <<>> \/ db.rows[1].username # username
         THEN UserResult(db, "KeyError", NoUser)
    ELSE IF db.rows[1].role # BUYER THEN UserResult(db, "UserNotBuyerException", NoUser)
    ELSE LET rows == MapWhere(db.rows, LAMBDA r : r.username = username,
                              LAMBDA r : [r EXCEPT !.deposit = 0])
             m == RowsWhere(rows, LAMBDA r : r.username = username)
         IN  UserResult(WriteCsv(rows), "ok", m[1])

\* mutant: an account that still holds a deposit is not deleted
delete_user_keeps_funded(db, username) ==
    IF ~db.hdr THEN UserResult(db, "UserNotDeletedException", NoUser)
    ELSE LET i == FirstIndex(db.rows, LAMBDA r : r.username = username) IN
         IF i = 0 THEN UserResult(db, "UserNotFoundException", NoUser)
         ELSE IF db.rows[i].deposit # 0 THEN UserResult(db, "UserNotDeletedException", NoUser)
         ELSE UserResult(WriteCsv(DropRow(db.rows, i)), "ok", NoUser)

delete_user(db, username) ==
    IF ~db.hdr THEN UserResult(db, "UserNotDeletedException", NoUser)
    ELSE LET i == FirstIndex(db.rows, LAMBDA r : r.username = username) IN
         IF i = 0 THEN UserResult(db, "UserNotFoundException", NoUser)
         ELSE UserResult(WriteCsv(DropRow(db.rows, i)), "ok", NoUser)

\* ------------------------------------------------------------- product.py
NoProduct == [productId |-> NoId, productName |-> "", cost |-> 0, amountAvailable |-> 0,
              sellerId |-> NoId]

\* ProductModel(**row): "ok" or the exception the constructor raises. The
\* ValueErrors of the validators are collected into one ValidationError
\* raised at the end, and a ValueError ends the chain of its field: an empty
\* sellerId (empty_sellerId) and a user_db.csv without content (pd.read_csv
\* in sellerId_not_found raises EmptyDataError, a ValueError) are reported
\* so. The UserNotFoundException of sellerId_not_found is no ValueError and
\* leaves the constructor at once.
ProductModelErr(row, udb) ==
    IF row.sellerId = "" \/ ~udb.hdr THEN "ValidationError"
    ELSE IF \A i \in 1..Len(udb.rows) : udb.rows[i].id # row.sellerId
         THEN "UserNotFoundException"
    ELSE IF \/ row.productId = "" \/ row.productName = ""
            \/ row.cost % 5 # 0 \/ row.cost < 0 \/ row.amountAvailable < 0
         THEN "ValidationError"
    ELSE "ok"

ProductResult(db, err, product) == [db |-> db, err |-> err, product |-> product]

\* the value a function returns after its write: ProductModel(**row) or its error
Validated(db, row, udb, wrapped) ==
    LET e == ProductModelErr(row, udb) IN
    IF e = "ok" THEN ProductResult(db, "ok", row)
    ELSE ProductResult(db, IF wrapped = "" THEN e ELSE wrapped, NoProduct)

create_new_product(db, udb, productName, cost, amountAvailable, sellerId, productId) ==
    LET data == [productId |-> productId, productName |-> productName, cost |-> cost,
                 amountAvailable |-> amountAvailable, sellerId |-> sellerId]
    IN  IF db.hdr /\ \E i \in 1..Len(db.rows) :
                        /\ db.rows[i].sellerId = sellerId
                        /\ db.rows[i].productName = productName
        THEN ProductResult(db, "ProductNotCreatedException", NoProduct)
        ELSE Validated(WriteCsv(Append(db.rows, data)), data, udb, "")

\* an argument left at its default None
None == "None"

\* the rows are selected by productId when one is given, else by productName;
\* with neither product_df is never bound
get_product(db, udb, productId, productName) ==
    IF ~db.hdr THEN ProductResult(db, "EmptyDataError", NoProduct)
    ELSE IF productId = None /\ productName = None
         THEN ProductResult(db, "UnboundLocalError", NoProduct)
    ELSE LET m == IF productId # None
                  THEN RowsWhere(db.rows, LAMBDA r : r.productId = productId)
                  ELSE RowsWhere(db.rows, LAMBDA r : r.productName = productName)
         IN  IF m = <<>> THEN ProductResult(db, "ProductNotFoundException", NoProduct)
             ELSE Validated(db, m[1], udb, "")

\* the rows update_product_cost, update_product_amountAvailable and
\* delete_product select: sellerId and productName both match
Owned(sellerId, productName, r) == r.sellerId = sellerId /\ r.productName = productName

\* mutant: the rows to change are selected by productName alone
update_product_cost_by_name(db, udb, sellerId, productName, cost) ==
    IF ~db.hdr THEN ProductResult(db, "ProductNotUpdatedException", NoProduct)
    ELSE IF RowsWhere(db.rows, LAMBDA r : r.sellerId = sellerId) = <<>>
         THEN ProductResult(db, "ProductNotUpdatedException", NoProduct)
    ELSE IF RowsWhere(db.rows, LAMBDA r : r.productName = productName) = <<>>
         THEN ProductResult(db, "ProductNotUpdatedException", NoProduct)
    ELSE LET rows == MapWhere(db.rows, LAMBDA r : r.productName = productName,
                              LAMBDA r : [r EXCEPT !.cost = cost])
             m == RowsWhere(rows, LAMBDA r : r.productName = productName)
         IN  Validated(WriteCsv(rows), m[1], udb, "ProductNotUpdatedException")

update_product_cost(db, udb, sellerId, productName, cost) ==
    IF ~db.hdr THEN ProductResult(db, "ProductNotUpdatedException", NoProduct)
    ELSE IF RowsWhere(db.rows, LAMBDA r : r.sellerId = sellerId) = <<>>
         THEN ProductResult(db, "ProductNotUpdatedException", NoProduct)
    ELSE IF RowsWhere(db.rows, LAMBDA r : Owned(sellerId, productName, r)) = <<>>
         THEN ProductResult(db, "ProductNotUpdatedException", NoProduct)
    ELSE LET rows == MapWhere(db.rows, LAMBDA r : Owned(sellerId, productName, r),
                              LAMBDA r : [r EXCEPT !.cost = cost])
             m == RowsWhere(rows, LAMBDA r : Owned(sellerId, productName, r))
         IN  Validated(WriteCsv(rows), m[1], udb, "ProductNotUpdatedException")

\* mutant: the new amount is written to every product of the seller
update_product_amountAvailable_by_seller(db, udb, sellerId, productName, amountAvailable) ==
    IF ~db.hdr THEN ProductResult(db, "ProductNotUpdatedException", NoProduct)
    ELSE IF RowsWhere(db.rows, LAMBDA r : r.sellerId = sellerId) = <<>>
         THEN ProductResult(db, "ProductNotUpdatedException", NoProduct)
    ELSE IF RowsWhere(db.rows, LAMBDA r : Owned(sellerId, productName, r)) = <<>>
         THEN ProductResult(db, "ProductNotUpdatedException", NoProduct)
    ELSE LET rows == MapWhere(db.rows, LAMBDA r : r.sellerId = sellerId,
                              LAMBDA r : [r EXCEPT !.amountAvailable = amountAvailable])
             m == RowsWhere(rows, LAMBDA r : Owned(sellerId, productName, r))
         IN  Validated(WriteCsv(rows), m[1], udb, "ProductNotUpdatedException")

update_product_amountAvailable(db, udb, sellerId, productName, amountAvailable) ==
    IF ~db.hdr THEN ProductResult(db, "ProductNotUpdatedException", NoProduct)
    ELSE IF RowsWhere(db.rows, LAMBDA r : r.sellerId = sellerId) = <<>>
         THEN ProductResult(db, "ProductNotUpdatedException", NoProduct)
    ELSE IF RowsWhere(db.rows, LAMBDA r : Owned(sellerId, productName, r)) = <<>>
         THEN ProductResult(db, "ProductNotUpdatedException", NoProduct)
    ELSE LET rows == MapWhere(db.rows, LAMBDA r : Owned(sellerId, productName, r),
                              LAMBDA r : [r EXCEPT !.amountAvailable = amountAvailable])
             m == RowsWhere(rows, LAMBDA r : Owned(sellerId, productName, r))
         IN  Validated(WriteCsv(rows), m[1], udb, "ProductNotUpdatedException")

\* mutant: one unit leaves the stock whatever the quantity asked for
take_product_one_unit(db, udb, productId, no_of_products) ==
    IF ~db.hdr THEN ProductResult(db, "ProductNotUpdatedException", NoProduct)
    ELSE LET old == RowsWhere(db.rows, LAMBDA r : r.productId = productId) IN
         IF old = <<>> THEN ProductResult(db, "ProductNotUpdatedException", NoProduct)
         ELSE IF old[1].amountAvailable < no_of_products
              THEN ProductResult(db, "ProductNotUpdatedException", NoProduct)
         ELSE LET rows == MapWhere(db.rows, LAMBDA r : r.productId = productId,
                                   LAMBDA r : [r EXCEPT !.amountAvailable = @ - 1])
                  m == RowsWhere(rows, LAMBDA r : r.productId = productId)
              IN  Validated(WriteCsv(rows), m[1], udb, "ProductNotUpdatedException")

take_product(db, udb, productId, no_of_products) ==
    IF ~db.hdr THEN ProductResult(db, "ProductNotUpdatedException", NoProduct)
    ELSE LET old == RowsWhere(db.rows, LAMBDA r : r.productId = productId) IN
         IF old = <<>> THEN ProductResult(db, "ProductNotUpdatedException", NoProduct)
         ELSE IF old[1].amountAvailable < no_of_products
              THEN ProductResult(db, "ProductNotUpdatedException", NoProduct)
         ELSE LET rows == MapWhere(db.rows, LAMBDA r : r.productId = productId,
                                   LAMBDA r : [r EXCEPT !.amountAvailable = @ - no_of_products])
                  m == RowsWhere(rows, LAMBDA r : r.productId = productId)
              IN  Validated(WriteCsv(rows), m[1], udb, "ProductNotUpdatedException")

\* take_product called on the frame db reaches its write_to_csv (lines 285-301)
take_product_writes(db, productId, no_of_products) ==
    /\ db.hdr
    /\ \E i \in 1..Len(db.rows) : db.rows[i].productId = productId
    /\ RowsWhere(db.rows, LAMBDA r : r.productId = productId)[1].amountAvailable
          >= no_of_products

\* update_product_cost, update_product_amountAvailable and delete_product
\* called on the frame db reach their write_to_csv: the sellerId is in the
\* frame and a row of the seller has the productName
seller_call_writes(db, sellerId, productName) ==
    /\ db.hdr
    /\ \E i \in 1..Len(db.rows) : Owned(sellerId, productName, db.rows[i])

delete_product(db, sellerId, productName) ==
    IF ~db.hdr THEN ProductResult(db, "ProductNotDeletedException", NoProduct)
    ELSE IF RowsWhere(db.rows, LAMBDA r : r.sellerId = sellerId) = <<>>
         THEN ProductResult(db, "ProductNotDeletedException", NoProduct)
    ELSE LET i == FirstIndex(db.rows, LAMBDA r : Owned(sellerId, productName, r)) IN
         IF i = 0 THEN ProductResult(db, "ProductNotDeletedException", NoProduct)
         ELSE ProductResult(WriteCsv(DropRow(db.rows, i)), "ok", NoProduct)

\* ------------------------------------------------- user.py: buy_product
\* [coin] * num
Repeat(coin, num) == [k \in 1..num |-> coin]

\* mutant: one coin of each denomination that fits, instead of amount // coin
ChangeStep_one_coin(st, coin) ==
    IF st.amount >= coin
    THEN [amount |-> st.amount - coin, change |-> Append(st.change, coin)]
    ELSE st

\* one iteration of "for coin in [100, 50, 20, 10, 5]" on (amount, change)
ChangeStep(st, coin) ==
    IF st.amount > 0
    THEN LET num == st.amount \div coin IN
         [amount |-> st.amount - coin * num, change |-> st.change \o Repeat(coin, num)]
    ELSE st

\* mutant: the loop skips the 50 coin
CoinOrder_without_fifty == <<100, 20, 10, 5>>

CoinOrder == <<100, 50, 20, 10, 5>>

RECURSIVE ChangeLoop(_, _)
ChangeLoop(st, k) ==
    IF k > Len(CoinOrder) THEN st ELSE ChangeLoop(ChangeStep(st, CoinOrder[k]), k + 1)

\* the change list the loop leaves for amount = user_obj.deposit
MakeChange(amount) == ChangeLoop([amount |-> amount, change |-> <<>>], 1).change

RECURSIVE SumSeq(_)
SumSeq(s) == IF s = <<>> THEN 0 ELSE Head(s) + SumSeq(Tail(s))

BuyChecked(err, user, product) == [err |-> err, user |-> user, product |-> product]

\* mutant: the zero-deposit check of lines 342-343 is missing
buy_check_user_no_zero_deposit_check(udb, username) ==
    LET g == get_user(udb, username) IN
    IF g.err # "ok" THEN BuyChecked(g.err, NoUser, NoProduct)
    ELSE IF g.user.role = SELLER THEN BuyChecked("UserNotBuyerException", g.user, NoProduct)
    ELSE BuyChecked("ok", g.user, NoProduct)

\* lines 334-343: get_user, the role check and the zero-deposit check
buy_check_user(udb, username) ==
    LET g == get_user(udb, username) IN
    IF g.err # "ok" THEN BuyChecked(g.err, NoUser, NoProduct)
    ELSE IF g.user.role = SELLER THEN BuyChecked("UserNotBuyerException", g.user, NoProduct)
    ELSE IF g.user.deposit = 0 THEN BuyChecked("ZeroDepositException", g.user, NoProduct)
    ELSE BuyChecked("ok", g.user, NoProduct)

\* mutant: the funds check of lines 352-353 is missing
buy_check_product_no_funds_check(udb, pdb, user_obj, productId, no_of_products) ==
    LET p == get_product(pdb, udb, productId, None) IN
    IF p.err # "ok" THEN BuyChecked(p.err, user_obj, NoProduct)
    ELSE IF p.product.amountAvailable < no_of_products
         THEN BuyChecked("ProductAmountUnavailableException", user_obj, p.product)
    ELSE BuyChecked("ok", user_obj, p.product)

\* mutant: the funds check is made before the stock check
buy_check_product_funds_first(udb, pdb, user_obj, productId, no_of_products) ==
    LET p == get_product(pdb, udb, productId, None) IN
    IF p.err # "ok" THEN BuyChecked(p.err, user_obj, NoProduct)
    ELSE IF user_obj.deposit < p.product.cost * no_of_products
         THEN BuyChecked("PurchaseException", user_obj, p.product)
    ELSE IF p.product.amountAvailable < no_of_products
         THEN BuyChecked("ProductAmountUnavailableException", user_obj, p.product)
    ELSE BuyChecked("ok", user_obj, p.product)

\* mutant: the stock and funds checks refuse the exact amounts too
buy_check_product_strict(udb, pdb, user_obj, productId, no_of_products) ==
    LET p == get_product(pdb, udb, productId, None) IN
    IF p.err # "ok" THEN BuyChecked(p.err, user_obj, NoProduct)
    ELSE IF p.product.amountAvailable <= no_of_products
         THEN BuyChecked("ProductAmountUnavailableException", user_obj, p.product)
    ELSE IF user_obj.deposit <= p.product.cost * no_of_products
         THEN BuyChecked("PurchaseException", user_obj, p.product)
    ELSE BuyChecked("ok", user_obj, p.product)

\* lines 344-353: get_product, the stock check and the funds check
buy_check_product(udb, pdb, user_obj, productId, no_of_products) ==
    LET p == get_product(pdb, udb, productId, None) IN
    IF p.err # "ok" THEN BuyChecked(p.err, user_obj, NoProduct)
    ELSE IF p.product.amountAvailable < no_of_products
         THEN BuyChecked("ProductAmountUnavailableException", user_obj, p.product)
    ELSE IF user_obj.deposit < p.product.cost * no_of_products
         THEN BuyChecked("PurchaseException", user_obj, p.product)
    ELSE BuyChecked("ok", user_obj, p.product)

\* lines 334-353: the reads and the checks made before anything is written
buy_checks(udb, pdb, username, productId, no_of_products) ==
    LET u == buy_check_user(udb, username) IN
    IF u.err # "ok" THEN u
    ELSE buy_check_product(udb, pdb, u.user, productId, no_of_products)

\* what buy_product leaves and hands back. stage: "checks" when a check of
\* lines 334-353 raised, "reimbursed" / "not_reimbursed" when the try block
\* raised and deposit_amount of the handler returned / raised, "bought".
BuyResult(udb, pdb, err, stage, total, product, change) ==
    [udb |-> udb, pdb |-> pdb, err |-> err, stage |-> stage, total |-> total,
     product |-> product, change |-> change]

\* an exception of lines 334-353 leaves buy_product before the try block
buy_rejected(udb, pdb, err) == BuyResult(udb, pdb, err, "checks", 0, NoProduct, <<>>)

\* mutant: the change is computed from the amount spent
buy_return_change_of_spent(udb, pdb, user_obj, product_obj, no_of_products) ==
    BuyResult(udb, pdb, "ok", "bought", product_obj.cost * no_of_products, product_obj,
              MakeChange(product_obj.cost * no_of_products))

\* lines 361-372: the change of the debited account and the returned tuple
buy_return(udb, pdb, user_obj, product_obj, no_of_products) ==
    BuyResult(udb, pdb, "ok", "bought", product_obj.cost * no_of_products, product_obj,
              MakeChange(user_obj.deposit))

\* lines 373-379: the handler of the try block
buy_reimburse(udb, pdb, username, amount) ==
    LET r == deposit_amount(udb, username, amount) IN
    IF r.err = "ok"
    THEN BuyResult(r.db, pdb, "UserNotUpdatedException", "reimbursed", 0, NoProduct, <<>>)
    ELSE BuyResult(r.db, pdb, r.err, "not_reimbursed", 0, NoProduct, <<>>)

\* lines 354-379: the try block and its handler
buy_commit(udb, pdb, user_obj, product_obj, no_of_products) ==
    LET amount == product_obj.cost * no_of_products
        d == deduct_amount(udb, user_obj.username, amount)
    IN  IF d.err # "ok" THEN buy_reimburse(d.db, pdb, user_obj.username, amount)
        ELSE LET t == take_product(pdb, d.db, product_obj.productId, no_of_products) IN
             IF t.err # "ok" THEN buy_reimburse(d.db, t.db, user_obj.username, amount)
             ELSE buy_return(d.db, t.db, d.user, t.product, no_of_products)

\* mutant: the debit is made before the funds check raises
buy_product_debit_first(udb, pdb, username, productId, no_of_products) ==
    LET c == buy_checks(udb, pdb, username, productId, no_of_products) IN
    IF c.err = "PurchaseException"
    THEN buy_rejected(deduct_amount(udb, username, c.product.cost * no_of_products).db,
                      pdb, c.err)
    ELSE IF c.err # "ok" THEN buy_rejected(udb, pdb, c.err)
    ELSE buy_commit(udb, pdb, c.user, c.product, no_of_products)

buy_product(udb, pdb, username, productId, no_of_products) ==
    LET c == buy_checks(udb, pdb, username, productId, no_of_products) IN
    IF c.err # "ok" THEN buy_rejected(udb, pdb, c.err)
    ELSE buy_commit(udb, pdb, c.user, c.product, no_of_products)

\* ------------------------------------------------------------------ state
\* user_db, product_db: the two csv files; last: the latest call that
\* returned, its arguments, the exception it raised and what it returned;
\* calls: the buy_product calls in flight, one per thread, with their locals;
\* loop: the locals of the change-making loop run on its own
VARIABLES user_db, product_db, last, calls, loop

vars == <<user_db, product_db, last, calls, loop>>

Threads == {"t1", "t2"}

Idle ==
    [pc |-> "idle", username |-> "", productId |-> NoId, no_of_products |-> 0,
     user_obj |-> NoUser, product_obj |-> NoProduct, deposit0 |-> 0, debited |-> FALSE,
     frame |-> EmptyFile]

NoLoop == [n |-> 0, amount |-> 0, change |-> <<>>, k |-> 0]

Call(op, who, what, arg, err) ==
    [op |-> op, who |-> who, what |-> what, arg |-> arg, err |-> err, stage |-> "",
     total |-> 0, user |-> NoUser, product |-> NoProduct, change |-> <<>>]

StoredUserIds == {user_db.rows[i].id : i \in 1..Len(user_db.rows)}
StoredSellerIds == {product_db.rows[i].sellerId : i \in 1..Len(product_db.rows)}
StoredProductIds == {product_db.rows[i].productId : i \in 1..Len(product_db.rows)}

\* random.choice(...) x 16: an id no stored row holds
FreshUserIds == UserIds \ (StoredUserIds \union StoredSellerIds)
FreshProductIds == ProductIds \ StoredProductIds

NewId(fresh) == IF fresh = {} THEN NoId ELSE CHOOSE id \in fresh : TRUE

WithinBounds(udb, pdb) ==
    /\ Len(pdb.rows) <= Cardinality(ProductNames)
    /\ \A i \in 1..Len(udb.rows) : udb.rows[i].deposit <= 5 * MaxUnits
    /\ \A i \in 1..Len(pdb.rows) : pdb.rows[i].amountAvailable <= MaxStock

Init ==
    /\ user_db = EmptyFile
    /\ product_db = EmptyFile
    /\ last = Call("init", "", "", 0, "ok")
    /\ calls = [t \in Threads |-> Idle]
    /\ loop = NoLoop

CreateUser ==
    \E acc \in Accounts :
        \E r \in {create_new_user(user_db, acc[1], "pw1", acc[2], NewId(FreshUserIds))} :
        /\ r.err = "ok" => FreshUserIds # {}
        /\ user_db' = r.db
        /\ last' = [Call("create_new_user", acc[1], acc[2], 0, r.err) EXCEPT !.user = r.user]
        /\ UNCHANGED product_db

\* PUT /user: the request carries the new password, a string
UpdatePassword ==
    \E username \in UserNames, password \in NewPasswords :
        \E r \in {update_password(user_db, username, password)} :
        /\ user_db' = r.db
        /\ last' = [Call("update_password", username, password, 0, r.err)
                    EXCEPT !.user = r.user]
        /\ UNCHANGED product_db

Deposit ==
    \E username \in UserNames, deposit \in DepositInputs :
        \E r \in {deposit_amount(user_db, username, deposit)} :
        /\ WithinBounds(r.db, product_db)
        /\ user_db' = r.db
        /\ last' = [Call("deposit_amount", username, "", deposit, r.err) EXCEPT !.user = r.user]
        /\ UNCHANGED product_db

ResetDeposit ==
    \E username \in UserNames :
        \E r \in {reset_deposit(user_db, username)} :
        /\ user_db' = r.db
        /\ last' = [Call("reset_deposit", username, "", 0, r.err) EXCEPT !.user = r.user]
        /\ UNCHANGED product_db

DeleteUser ==
    \E username \in UserNames :
        \E r \in {delete_user(user_db, username)} :
        /\ user_db' = r.db
        /\ last' = Call("delete_user", username, "", 0, r.err)
        /\ UNCHANGED product_db

CreateProduct ==
    \E productName \in ProductNames, cost \in CostInputs, amountAvailable \in StockInputs,
       sellerId \in StoredUserIds :
        /\ \E r \in {create_new_product(product_db, user_db, productName, cost,
                                       amountAvailable, sellerId, NewId(FreshProductIds))} :
               /\ Len(r.db.rows) > Len(product_db.rows) => FreshProductIds # {}
               /\ WithinBounds(user_db, r.db)
               /\ product_db' = r.db
               /\ last' = [Call("create_new_product", sellerId, productName, cost, r.err)
                           EXCEPT !.product = r.product]
        /\ UNCHANGED user_db

UpdateCost ==
    \E sellerId \in StoredUserIds, productName \in ProductNames, cost \in CostInputs :
        \E r \in {update_product_cost(product_db, user_db, sellerId, productName, cost)} :
        /\ product_db' = r.db
        /\ last' = [Call("update_product_cost", sellerId, productName, cost, r.err)
                    EXCEPT !.product = r.product]
        /\ UNCHANGED user_db

UpdateAmount ==
    \E sellerId \in StoredUserIds, productName \in ProductNames, amountAvailable \in StockInputs :
        \E r \in {update_product_amountAvailable(product_db, user_db, sellerId, productName,
                                                amountAvailable)} :
        /\ product_db' = r.db
        /\ last' = [Call("update_product_amountAvailable", sellerId, productName,
                         amountAvailable, r.err) EXCEPT !.product = r.product]
        /\ UNCHANGED user_db

DeleteProduct ==
    \E sellerId \in StoredUserIds, productName \in ProductNames :
        \E r \in {delete_product(product_db, sellerId, productName)} :
        /\ product_db' = r.db
        /\ last' = Call("delete_product", sellerId, productName, 0, r.err)
        /\ UNCHANGED user_db

Buy ==
    \E username \in UserNames, productId \in StoredProductIds \union {NoId},
       no_of_products \in QtyInputs :
        \E r \in {buy_product(user_db, product_db, username, productId, no_of_products)} :
        /\ WithinBounds(r.udb, r.pdb)
        /\ user_db' = r.udb
        /\ product_db' = r.pdb
        /\ last' = [Call("buy_product", username, productId, no_of_products, r.err)
                    EXCEPT !.stage = r.stage, !.total = r.total, !.product = r.product,
                           !.change = r.change]

\* one call at a time, each running to its return
Next ==
    /\ \/ CreateUser
       \/ UpdatePassword
       \/ Deposit
       \/ DeleteUser
       \/ CreateProduct
       \/ UpdateCost
       \/ UpdateAmount
       \/ DeleteProduct
       \/ Buy
    /\ UNCHANGED <<calls, loop>>

Spec == Init /\ [][Next]_vars

\* the costs and stocks of the product the concurrent purchases start from
ConcCosts == {5, 15}
ConcStocks == {1, MaxStock}
\* the amount the seller sets while purchases run: the product is taken off sale
ConcAmounts == {0}

\* --------------------------------------------- purchases that interleave
\* buy_product makes five store calls in turn (get_user, get_product,
\* deduct_amount, take_product and, in the handler, deposit_amount). A store
\* call that changes a file reads the whole file into pd_dataframe, changes
\* rows of that frame and later writes the frame over the file; no lock is
\* held in between. A store call that returns a ProductModel reads
\* user_db.csv in the model's validator (product.py line 66) after its own
\* read or write and before it returns. A thread runs one read, one write
\* or one return at a time, and the steps of other calls run between them.
\* the call of thread t returns r (res: r evaluated once)
Return(t, r) ==
    \E res \in {r} :
        /\ calls' = [calls EXCEPT ![t] = Idle]
        /\ last' = [Call("buy_product", calls[t].username, calls[t].productId,
                         calls[t].no_of_products, res.err)
                    EXCEPT !.stage = res.stage, !.total = res.total,
                           !.product = res.product, !.change = res.change]

\* lines 334-343
BuyGetUser(t) ==
    /\ calls[t].pc = "idle"
    /\ \E username \in UserNames, productId \in StoredProductIds, no_of_products \in 1..MaxQty :
          \E c \in {buy_check_user(user_db, username)} :
          IF c.err # "ok"
          THEN /\ calls' = calls
               /\ last' = [Call("buy_product", username, productId, no_of_products, c.err)
                           EXCEPT !.stage = "checks"]
          ELSE /\ calls' = [calls EXCEPT ![t] =
                              [pc |-> "get_product", username |-> username,
                               productId |-> productId, no_of_products |-> no_of_products,
                               user_obj |-> c.user, product_obj |-> NoProduct,
                               deposit0 |-> c.user.deposit, debited |-> FALSE,
                               frame |-> EmptyFile]]
               /\ last' = last
    /\ UNCHANGED <<user_db, product_db, loop>>

\* line 345 entering get_product, product.py line 144: pd.read_csv("./product_db.csv")
BuyGetProductRead(t) ==
    /\ calls[t].pc = "get_product"
    /\ calls' = [calls EXCEPT ![t].pc = "get_product_return", ![t].frame = product_db]
    /\ UNCHANGED <<user_db, product_db, last, loop>>

\* product.py lines 145-156 on the frame read: ProductModel(...) reads
\* user_db.csv in its validator (line 66); then lines 346-353
BuyGetProduct(t) ==
    /\ calls[t].pc = "get_product_return"
    /\ \E c \in {buy_check_product(user_db, calls[t].frame, calls[t].user_obj,
                                  calls[t].productId, calls[t].no_of_products)} :
           IF c.err # "ok"
           THEN Return(t, buy_rejected(user_db, product_db, c.err))
           ELSE /\ calls' = [calls EXCEPT ![t].pc = "deduct", ![t].product_obj = c.product,
                                          ![t].frame = EmptyFile]
                /\ last' = last
    /\ UNCHANGED <<user_db, product_db, loop>>

\* the amount buy_product debits and gives back: product_obj.cost * no_of_products
BuyAmount(t) == calls[t].product_obj.cost * calls[t].no_of_products

\* line 355 entering deduct_amount, user.py line 245: pd.read_csv("./user_db.csv")
BuyDeductRead(t) ==
    /\ calls[t].pc = "deduct"
    /\ calls' = [calls EXCEPT ![t].pc = "deduct_write", ![t].frame = user_db]
    /\ UNCHANGED <<user_db, product_db, last, loop>>

\* user.py lines 246-266 on the frame read, back in buy_product at line 357
BuyDeduct(t) ==
    /\ calls[t].pc = "deduct_write"
    /\ \E d \in {deduct_amount(calls[t].frame, calls[t].user_obj.username, BuyAmount(t))},
          wrote \in {deduct_amount_writes(calls[t].frame, calls[t].user_obj.username,
                                          BuyAmount(t))} :
           /\ user_db' = IF wrote THEN d.db ELSE user_db
           /\ calls' = IF d.err # "ok"
                       THEN [calls EXCEPT ![t].pc = "reimburse", ![t].debited = wrote,
                                          ![t].frame = EmptyFile]
                       ELSE [calls EXCEPT ![t].pc = "take", ![t].user_obj = d.user,
                                          ![t].debited = TRUE, ![t].frame = EmptyFile]
    /\ UNCHANGED <<product_db, last, loop>>

\* line 358 entering take_product, product.py line 284: pd.read_csv("./product_db.csv")
BuyTakeRead(t) ==
    /\ calls[t].pc = "take"
    /\ calls' = [calls EXCEPT ![t].pc = "take_write", ![t].frame = product_db]
    /\ UNCHANGED <<user_db, product_db, last, loop>>

\* product.py lines 285-301 on the frame read: the check, the change, write_to_csv
BuyTakeWrite(t) ==
    /\ calls[t].pc = "take_write"
    /\ \E tk \in {take_product(calls[t].frame, user_db, calls[t].product_obj.productId,
                               calls[t].no_of_products)},
          wrote \in {take_product_writes(calls[t].frame, calls[t].product_obj.productId,
                                         calls[t].no_of_products)} :
           product_db' = IF wrote THEN tk.db ELSE product_db
    /\ calls' = [calls EXCEPT ![t].pc = "take_return"]
    /\ UNCHANGED <<user_db, last, loop>>

\* product.py lines 302-311: ProductModel(...) of the changed row reads
\* user_db.csv in its validator (line 66); then lines 361-372
BuyTake(t) ==
    /\ calls[t].pc = "take_return"
    /\ \E tk \in {take_product(calls[t].frame, user_db, calls[t].product_obj.productId,
                               calls[t].no_of_products)} :
           IF tk.err # "ok"
           THEN /\ calls' = [calls EXCEPT ![t].pc = "reimburse", ![t].frame = EmptyFile]
                /\ last' = last
           ELSE Return(t, buy_return(user_db, product_db, calls[t].user_obj, tk.product,
                                     calls[t].no_of_products))
    /\ UNCHANGED <<user_db, product_db, loop>>

\* line 374 entering deposit_amount, user.py line 194: pd.read_csv("./user_db.csv")
BuyReimburseRead(t) ==
    /\ calls[t].pc = "reimburse"
    /\ calls' = [calls EXCEPT ![t].pc = "reimburse_write", ![t].frame = user_db]
    /\ UNCHANGED <<user_db, product_db, last, loop>>

\* user.py lines 195-217 on the frame read: the checks, the change, write_to_csv
BuyReimburseWrite(t) ==
    /\ calls[t].pc = "reimburse_write"
    /\ \E r \in {buy_reimburse(calls[t].frame, product_db, calls[t].user_obj.username,
                              BuyAmount(t))},
          wrote \in {deposit_amount_writes(calls[t].frame, calls[t].user_obj.username,
                                           BuyAmount(t))} :
           user_db' = IF wrote THEN r.udb ELSE user_db
    /\ calls' = [calls EXCEPT ![t].pc = "reimburse_return"]
    /\ UNCHANGED <<product_db, last, loop>>

\* mutant: the handler waits until the reimbursement is accepted
BuyReimburse_retries(t) ==
    /\ calls[t].pc = "reimburse_return"
    /\ \E r \in {buy_reimburse(calls[t].frame, product_db, calls[t].user_obj.username,
                              BuyAmount(t))} :
           IF r.stage = "not_reimbursed"
           THEN UNCHANGED <<calls, last>>
           ELSE Return(t, r)
    /\ UNCHANGED <<user_db, product_db, loop>>

\* user.py lines 218-226, then lines 377-379: deposit_amount returns or
\* raises, the handler raises
BuyReimburse(t) ==
    /\ calls[t].pc = "reimburse_return"
    /\ Return(t, buy_reimburse(calls[t].frame, product_db, calls[t].user_obj.username,
                               BuyAmount(t)))
    /\ UNCHANGED <<user_db, product_db, loop>>

\* the caller of the seller's calls, a third thread
Seller == "x"

SellerIdle == [pc |-> "idle", step |-> "", sellerId |-> NoId, productName |-> "",
               arg |-> 0, frame |-> EmptyFile]

\* the seller's call starts: pd.read_csv("./product_db.csv") of
\* update_product_cost (product.py line 178), update_product_amountAvailable
\* (line 232) or delete_product (line 330), for the product of ConcInit
SellerRead(op, arg) ==
    /\ calls[Seller].pc = "idle"
    /\ calls' = [calls EXCEPT ![Seller] = [pc |-> op, step |-> "write", sellerId |-> "u1",
                                           productName |-> "apple", arg |-> arg,
                                           frame |-> product_db]]
    /\ UNCHANGED <<user_db, product_db, last, loop>>

\* the seller's call goes on with the frame it read: when its checks pass
\* (w) the changed frame, r.db, is written over the file
SellerWrite(op, r, w) ==
    /\ calls[Seller].pc = op /\ calls[Seller].step = "write"
    /\ \E res \in {r}, wrote \in {w} :
          product_db' = IF wrote THEN res.db ELSE product_db
    /\ calls' = [calls EXCEPT ![Seller].step = "return"]
    /\ UNCHANGED <<user_db, last, loop>>

\* the seller's call returns r: the value or the exception, for the updates
\* after ProductModel(...) has read user_db.csv in its validator (line 66);
\* the seller makes one call in a run
SellerReturn(op, r) ==
    /\ calls[Seller].pc = op /\ calls[Seller].step = "return"
    /\ \E res \in {r} :
          last' = [Call(op, calls[Seller].sellerId, calls[Seller].productName,
                        calls[Seller].arg, res.err) EXCEPT !.product = res.product]
    /\ calls' = [calls EXCEPT ![Seller] = [SellerIdle EXCEPT !.pc = "done"]]
    /\ UNCHANGED <<user_db, product_db, loop>>

\* the seller's call reaches its write_to_csv
SellerWrites ==
    seller_call_writes(calls[Seller].frame, calls[Seller].sellerId, calls[Seller].productName)

\* product.py line 330
SellerDeleteRead == SellerRead("delete_product", 0)

\* product.py lines 331-351
SellerDeleteWrite ==
    SellerWrite("delete_product",
                delete_product(calls[Seller].frame, calls[Seller].sellerId,
                               calls[Seller].productName),
                SellerWrites)

\* product.py lines 352-354
SellerDelete ==
    SellerReturn("delete_product",
                 delete_product(calls[Seller].frame, calls[Seller].sellerId,
                                calls[Seller].productName))

\* product.py line 232
SellerUpdateAmountRead ==
    \E amountAvailable \in ConcAmounts :
        SellerRead("update_product_amountAvailable", amountAvailable)

\* product.py lines 233-256
SellerUpdateAmountWrite ==
    SellerWrite("update_product_amountAvailable",
                update_product_amountAvailable(calls[Seller].frame, user_db,
                                               calls[Seller].sellerId,
                                               calls[Seller].productName, calls[Seller].arg),
                SellerWrites)

\* product.py lines 257-266
SellerUpdateAmount ==
    SellerReturn("update_product_amountAvailable",
                 update_product_amountAvailable(calls[Seller].frame, user_db,
                                                calls[Seller].sellerId,
                                                calls[Seller].productName, calls[Seller].arg))

\* product.py line 178
SellerUpdateCostRead ==
    \E cost \in ConcCosts : SellerRead("update_product_cost", cost)

\* product.py lines 179-202
SellerUpdateCostWrite ==
    SellerWrite("update_product_cost",
                update_product_cost(calls[Seller].frame, user_db, calls[Seller].sellerId,
                                    calls[Seller].productName, calls[Seller].arg),
                SellerWrites)

\* product.py lines 203-210
SellerUpdateCost ==
    SellerReturn("update_product_cost",
                 update_product_cost(calls[Seller].frame, user_db, calls[Seller].sellerId,
                                     calls[Seller].productName, calls[Seller].arg))

\* a seller, a buyer with a full deposit and the seller's product are stored
ConcInit ==
    /\ user_db = WriteCsv(<<[id |-> "u1", username |-> "bob", password |-> "pw1",
                             deposit |-> 0, role |-> SELLER],
                            [id |-> "u2", username |-> "ann", password |-> "pw1",
                             deposit |-> 5 * MaxUnits, role |-> BUYER]>>)
    /\ \E cost \in ConcCosts, amountAvailable \in ConcStocks :
          product_db = WriteCsv(<<[productId |-> "p1", productName |-> "apple", cost |-> cost,
                                   amountAvailable |-> amountAvailable, sellerId |-> "u1"]>>)
    /\ last = Call("init", "", "", 0, "ok")
    /\ calls = [t \in Threads |-> Idle] @@ (Seller :> SellerIdle)
    /\ loop = NoLoop

\* the reads and writes of the purchases of two threads
BuySteps ==
    \/ \E t \in Threads : BuyGetUser(t)
    \/ \E t \in Threads : BuyGetProductRead(t)
    \/ \E t \in Threads : BuyGetProduct(t)
    \/ \E t \in Threads : BuyDeductRead(t)
    \/ \E t \in Threads : BuyDeduct(t)
    \/ \E t \in Threads : BuyTakeRead(t)
    \/ \E t \in Threads : BuyTakeWrite(t)
    \/ \E t \in Threads : BuyTake(t)
    \/ \E t \in Threads : BuyReimburseRead(t)
    \/ \E t \in Threads : BuyReimburseWrite(t)
    \/ \E t \in Threads : BuyReimburse(t)

ConcNext ==
    \/ BuySteps
    \/ SellerDeleteRead
    \/ SellerDeleteWrite
    \/ SellerDelete
    \/ SellerUpdateAmountRead
    \/ SellerUpdateAmountWrite
    \/ SellerUpdateAmount

SpecConc == ConcInit /\ [][ConcNext]_vars

\* the next read or write of the buy_product call thread t is running
BuyStep(t) ==
    \/ BuyGetProductRead(t)
    \/ BuyGetProduct(t)
    \/ BuyDeductRead(t)
    \/ BuyDeduct(t)
    \/ BuyTakeRead(t)
    \/ BuyTakeWrite(t)
    \/ BuyTake(t)
    \/ BuyReimburseRead(t)
    \/ BuyReimburseWrite(t)
    \/ BuyReimburse(t)

\* one unit of the product is left when the calls start
LiveInit == ConcInit /\ product_db.rows[1].amountAvailable = 1

\* purchases by two threads while the seller deletes the product
LiveNext ==
    \/ BuySteps
    \/ SellerDeleteRead
    \/ SellerDeleteWrite
    \/ SellerDelete

\* every thread that is inside a call is scheduled again: no store call
\* takes a lock or waits for another thread
SpecLive == LiveInit /\ [][LiveNext]_vars /\ \A t \in Threads : WF_vars(BuyStep(t))

\* ------------------------------------------------- the change-making loop
\* lines 361-367 run on an arbitrary amount
LoopInit ==
    /\ user_db = EmptyFile
    /\ product_db = EmptyFile
    /\ last = Call("init", "", "", 0, "ok")
    /\ calls = [t \in Threads |-> Idle]
    /\ \E n \in 0..MaxAmount : loop = [n |-> n, amount |-> n, change |-> <<>>, k |-> 1]

LoopIter ==
    /\ loop.k \in 1..Len(CoinOrder)
    /\ \E st \in {ChangeStep([amount |-> loop.amount, change |-> loop.change],
                            CoinOrder[loop.k])} :
           loop' = [loop EXCEPT !.amount = st.amount, !.change = st.change, !.k = @ + 1]
    /\ UNCHANGED <<user_db, product_db, last, calls>>

LoopDone == loop.k = Len(CoinOrder) + 1

SpecChange == LoopInit /\ [][LoopIter]_vars

\* ------------------------------------- purchases racing for the last unit
\* a seller, two buyers with a full deposit each, and one unit of the
\* seller's product; only buy_product calls run, one buyer per thread
RaceInit ==
    /\ user_db = WriteCsv(<<[id |-> "u1", username |-> "sam", password |-> "pw1",
                             deposit |-> 0, role |-> SELLER],
                            [id |-> "u2", username |-> "ann", password |-> "pw1",
                             deposit |-> 5 * MaxUnits, role |-> BUYER],
                            [id |-> "u3", username |-> "bob", password |-> "pw1",
                             deposit |-> 5 * MaxUnits, role |-> BUYER]>>)
    /\ \E cost \in ConcCosts :
          product_db = WriteCsv(<<[productId |-> "p1", productName |-> "apple", cost |-> cost,
                                   amountAvailable |-> 1, sellerId |-> "u1"]>>)
    /\ last = Call("init", "", "", 0, "ok")
    /\ calls = [t \in Threads |-> Idle]
    /\ loop = NoLoop

\* the buyer each thread's call is made for
RaceBuyer(t) == IF t = "t1" THEN "ann" ELSE "bob"

\* lines 334-343 of a call for one unit by the thread's buyer
RaceGetUser(t) ==
    /\ BuyGetUser(t)
    /\ calls'[t].pc # "idle"
       => (calls'[t].username = RaceBuyer(t) /\ calls'[t].no_of_products = 1)

RaceNext ==
    \/ \E t \in Threads : RaceGetUser(t)
    \/ \E t \in Threads : BuyGetProductRead(t)
    \/ \E t \in Threads : BuyGetProduct(t)
    \/ \E t \in Threads : BuyDeductRead(t)
    \/ \E t \in Threads : BuyDeduct(t)
    \/ \E t \in Threads : BuyTakeRead(t)
    \/ \E t \in Threads : BuyTakeWrite(t)
    \/ \E t \in Threads : BuyTake(t)
    \/ \E t \in Threads : BuyReimburseRead(t)
    \/ \E t \in Threads : BuyReimburseWrite(t)
    \/ \E t \in Threads : BuyReimburse(t)

SpecRace == RaceInit /\ [][RaceNext]_vars

\* ------------------------- mutations of different records that interleave
\* deposit_amount and update_product_amountAvailable read the whole csv file
\* into pd_dataframe (lines 194 / 232), change the rows of their key in it
\* and write all of it back with mode "w" (lines 212-217 / 251-256). Each
\* thread makes one call, for a record of its own: the read is one step, the
\* change, the write and the return the next.
MutationIdle == [pc |-> "idle", op |-> "", arg |-> 0, frame |-> EmptyFile]

\* the product each thread's seller call is made for
MutationProduct(t) == IF t = "t1" THEN "apple" ELSE "pear"

MutationDeposits == {5, 10, 20}
MutationAmounts == {1, MaxStock}

MutationInit ==
    /\ user_db = WriteCsv(<<[id |-> "u1", username |-> "sam", password |-> "pw1",
                             deposit |-> 0, role |-> SELLER],
                            [id |-> "u2", username |-> "ann", password |-> "pw1",
                             deposit |-> 0, role |-> BUYER],
                            [id |-> "u3", username |-> "bob", password |-> "pw1",
                             deposit |-> 0, role |-> BUYER]>>)
    /\ product_db = WriteCsv(<<[productId |-> "p1", productName |-> "apple", cost |-> 5,
                                amountAvailable |-> 0, sellerId |-> "u1"],
                               [productId |-> "p2", productName |-> "pear", cost |-> 5,
                                amountAvailable |-> 0, sellerId |-> "u1"]>>)
    /\ last = Call("init", "", "", 0, "ok")
    /\ calls = [t \in Threads |-> MutationIdle]
    /\ loop = NoLoop

\* user.py line 194: pd_dataframe = pd.read_csv("./user_db.csv")
DepositRead(t) ==
    /\ calls[t].pc = "idle"
    /\ \E deposit \in MutationDeposits :
          calls' = [calls EXCEPT ![t] = [pc |-> "write", op |-> "deposit_amount",
                                         arg |-> deposit, frame |-> user_db]]
    /\ UNCHANGED <<user_db, product_db, last, loop>>

\* user.py lines 195-217: the change of pd_dataframe, write_to_csv
DepositWrite(t) ==
    /\ calls[t].pc = "write" /\ calls[t].op = "deposit_amount"
    /\ \E r \in {deposit_amount(calls[t].frame, RaceBuyer(t), calls[t].arg)} :
       user_db' = IF deposit_amount_writes(calls[t].frame, RaceBuyer(t), calls[t].arg)
                  THEN r.db ELSE user_db
    /\ calls' = [calls EXCEPT ![t].pc = "return"]
    /\ UNCHANGED <<product_db, last, loop>>

\* user.py lines 218-226: UserModel(...) of the changed row, the return
DepositReturn(t) ==
    /\ calls[t].pc = "return" /\ calls[t].op = "deposit_amount"
    /\ \E r \in {deposit_amount(calls[t].frame, RaceBuyer(t), calls[t].arg)} :
       last' = [Call("deposit_amount", RaceBuyer(t), "", calls[t].arg, r.err)
                EXCEPT !.user = r.user]
    /\ calls' = [calls EXCEPT ![t].pc = "done"]
    /\ UNCHANGED <<user_db, product_db, loop>>

\* product.py line 232: pd_dataframe = pd.read_csv("./product_db.csv")
UpdateAmountRead(t) ==
    /\ calls[t].pc = "idle"
    /\ \E amountAvailable \in MutationAmounts :
          calls' = [calls EXCEPT ![t] = [pc |-> "write", op |-> "update_product_amountAvailable",
                                         arg |-> amountAvailable, frame |-> product_db]]
    /\ UNCHANGED <<user_db, product_db, last, loop>>

\* product.py lines 233-256: the change of pd_dataframe, write_to_csv
UpdateAmountWrite(t) ==
    /\ calls[t].pc = "write" /\ calls[t].op = "update_product_amountAvailable"
    /\ \E r \in {update_product_amountAvailable(calls[t].frame, user_db, "u1",
                                                MutationProduct(t), calls[t].arg)} :
       product_db' = IF seller_call_writes(calls[t].frame, "u1", MutationProduct(t))
                     THEN r.db ELSE product_db
    /\ calls' = [calls EXCEPT ![t].pc = "return"]
    /\ UNCHANGED <<user_db, last, loop>>

\* product.py lines 257-266: ProductModel(...) of the changed row reads
\* user_db.csv in its validator (line 66); the return
UpdateAmountReturn(t) ==
    /\ calls[t].pc = "return" /\ calls[t].op = "update_product_amountAvailable"
    /\ \E r \in {update_product_amountAvailable(calls[t].frame, user_db, "u1",
                                                MutationProduct(t), calls[t].arg)} :
       last' = [Call("update_product_amountAvailable", "u1", MutationProduct(t),
                     calls[t].arg, r.err) EXCEPT !.product = r.product]
    /\ calls' = [calls EXCEPT ![t].pc = "done"]
    /\ UNCHANGED <<user_db, product_db, loop>>

MutationNext ==
    \/ \E t \in Threads : DepositRead(t)
    \/ \E t \in Threads : DepositWrite(t)
    \/ \E t \in Threads : DepositReturn(t)
    \/ \E t \in Threads : UpdateAmountRead(t)
    \/ \E t \in Threads : UpdateAmountWrite(t)
    \/ \E t \in Threads : UpdateAmountReturn(t)

SpecMutation == MutationInit /\ [][MutationNext]_vars

\* ---------------------------------------------- the catalog of two sellers
\* two sellers are stored; they, and a caller whose id no account holds,
\* create, update and delete products of two names
CatalogSellerIds == {"u1", "u2", "u9"}
CatalogNames == {"apple", "pear"}
CatalogCosts == {5, 10}
CatalogAmounts == {0, 1}

CatalogInit ==
    /\ user_db = WriteCsv(<<[id |-> "u1", username |-> "sam", password |-> "pw1",
                             deposit |-> 0, role |-> SELLER],
                            [id |-> "u2", username |-> "sue", password |-> "pw1",
                             deposit |-> 0, role |-> SELLER]>>)
    /\ product_db = EmptyFile
    /\ last = Call("init", "", "", 0, "ok")
    /\ calls = [t \in Threads |-> Idle]
    /\ loop = NoLoop

CatalogCreate ==
    \E productName \in CatalogNames, cost \in CatalogCosts, amountAvailable \in CatalogAmounts,
       sellerId \in CatalogSellerIds :
        \E r \in {create_new_product(product_db, user_db, productName, cost,
                                    amountAvailable, sellerId, NewId(FreshProductIds))} :
            /\ Len(r.db.rows) > Len(product_db.rows) => FreshProductIds # {}
            /\ product_db' = r.db
            /\ last' = [Call("create_new_product", sellerId, productName, cost, r.err)
                        EXCEPT !.product = r.product]
            /\ UNCHANGED <<user_db, calls, loop>>

CatalogUpdateCost ==
    \E sellerId \in CatalogSellerIds, productName \in CatalogNames, cost \in CatalogCosts :
        \E r \in {update_product_cost(product_db, user_db, sellerId, productName, cost)} :
        /\ product_db' = r.db
        /\ last' = [Call("update_product_cost", sellerId, productName, cost, r.err)
                    EXCEPT !.product = r.product]
        /\ UNCHANGED <<user_db, calls, loop>>

CatalogUpdateAmount ==
    \E sellerId \in CatalogSellerIds, productName \in CatalogNames,
       amountAvailable \in CatalogAmounts :
        \E r \in {update_product_amountAvailable(product_db, user_db, sellerId, productName,
                                                amountAvailable)} :
        /\ product_db' = r.db
        /\ last' = [Call("update_product_amountAvailable", sellerId, productName,
                         amountAvailable, r.err) EXCEPT !.product = r.product]
        /\ UNCHANGED <<user_db, calls, loop>>

CatalogDelete ==
    \E sellerId \in CatalogSellerIds, productName \in CatalogNames :
        \E r \in {delete_product(product_db, sellerId, productName)} :
        /\ product_db' = r.db
        /\ last' = Call("delete_product", sellerId, productName, 0, r.err)
        /\ UNCHANGED <<user_db, calls, loop>>

CatalogNext ==
    \/ CatalogCreate
    \/ CatalogUpdateCost
    \/ CatalogUpdateAmount
    \/ CatalogDelete

SpecCatalog == CatalogInit /\ [][CatalogNext]_vars

\* ------------------------------------------------ deposit calls on their own
\* the accounts of the deposit runs: two buyers and a seller, and a name
\* that no account holds
DepositUsers == {"ann", "bob", "cat", "dan"}
\* amounts handed to deposit_amount: the five coins and other integers
AmountInputs == {-5, 0, 3, 5, 10, 20, 50, 100}

DepositInit ==
    /\ user_db = WriteCsv(<<[id |-> "u1", username |-> "ann", password |-> "pw1",
                             deposit |-> 0, role |-> BUYER],
                            [id |-> "u2", username |-> "bob", password |-> "pw1",
                             deposit |-> 0, role |-> SELLER],
                            [id |-> "u3", username |-> "cat", password |-> "pw1",
                             deposit |-> 0, role |-> BUYER]>>)
    /\ product_db = EmptyFile
    /\ last = Call("init", "", "", 0, "ok")
    /\ calls = [t \in Threads |-> Idle]
    /\ loop = NoLoop

DepositCall ==
    \E username \in DepositUsers, deposit \in AmountInputs :
        \E r \in {deposit_amount(user_db, username, deposit)} :
        /\ \A i \in 1..Len(r.db.rows) : r.db.rows[i].deposit <= 5 * MaxDepositUnits
        /\ user_db' = r.db
        /\ last' = [Call("deposit_amount", username, "", deposit, r.err) EXCEPT !.user = r.user]
        /\ UNCHANGED <<product_db, calls, loop>>

DepositNext ==
    \/ DepositCall
    \/ (ResetDeposit /\ UNCHANGED <<calls, loop>>)

SpecDeposit == DepositInit /\ [][DepositNext]_vars

\* ------------------------------------------- the debit helper on its own
\* deduct_amount called directly, between deposits, on the accounts of
\* DepositInit
DeductInputs == {0, 5, 10, 20}

DeductCall ==
    \E username \in DepositUsers, amount \in DeductInputs :
        \E r \in {deduct_amount(user_db, username, amount)} :
        /\ \A i \in 1..Len(r.db.rows) : r.db.rows[i].deposit >= -(5 * MaxUnits)
        /\ user_db' = r.db
        /\ last' = [Call("deduct_amount", username, "", amount, r.err) EXCEPT !.user = r.user]
        /\ UNCHANGED <<product_db, calls, loop>>

DeductNext ==
    \/ DeductCall
    \/ (Deposit /\ UNCHANGED <<calls, loop>>)

SpecDeduct == DepositInit /\ [][DeductNext]_vars

\* ------------------------- purchases while the seller changes the cost
RepriceNext ==
    \/ BuySteps
    \/ SellerUpdateCostRead
    \/ SellerUpdateCostWrite
    \/ SellerUpdateCost

SpecReprice == LiveInit /\ [][RepriceNext]_vars

\* ------------------------------------------- purchases from two products
\* a seller with two products and a buyer with a full deposit; purchases,
\* the seller's restocking of apple and the buyer's reset_deposit
ShopInit ==
    /\ user_db = WriteCsv(<<[id |-> "u1", username |-> "bob", password |-> "pw1",
                             deposit |-> 0, role |-> SELLER],
                            [id |-> "u2", username |-> "ann", password |-> "pw1",
                             deposit |-> 5 * MaxUnits, role |-> BUYER]>>)
    /\ product_db = WriteCsv(<<[productId |-> "p1", productName |-> "apple", cost |-> 5,
                                amountAvailable |-> MaxStock, sellerId |-> "u1"],
                               [productId |-> "p2", productName |-> "pear", cost |-> 10,
                                amountAvailable |-> MaxStock, sellerId |-> "u1"]>>)
    /\ last = Call("init", "", "", 0, "ok")
    /\ calls = [t \in Threads |-> Idle]
    /\ loop = NoLoop

ShopBuy ==
    \E username \in UserNames, productId \in StoredProductIds \union {NoId},
       no_of_products \in QtyInputs :
        \E r \in {buy_product(user_db, product_db, username, productId, no_of_products)} :
        /\ \A i \in 1..Len(r.udb.rows) : r.udb.rows[i].deposit <= 5 * MaxUnits
        /\ \A i \in 1..Len(r.pdb.rows) : r.pdb.rows[i].amountAvailable <= MaxStock
        /\ user_db' = r.udb
        /\ product_db' = r.pdb
        /\ last' = [Call("buy_product", username, productId, no_of_products, r.err)
                    EXCEPT !.stage = r.stage, !.total = r.total, !.product = r.product,
                           !.change = r.change]

ShopNext ==
    /\ \/ ShopBuy
       \/ UpdateAmount
       \/ ResetDeposit
    /\ UNCHANGED <<calls, loop>>

SpecShop == ShopInit /\ [][ShopNext]_vars

\* ------------------------------------------------- calls on the accounts
\* update_password, deposit_amount, reset_deposit and buy_product called for
\* the stored accounts and for a name that no account holds
AccountNames == UserNames \union {"dan"}
PasswordInputs == {"pw2", NoPassword}

\* the accounts and products of ShopInit, the accounts stored in either
\* order of creation: reset_deposit reads the role at index label 0 (line
\* 291), so it writes only for the buyer whose row is the first of the file
AccountInit ==
    /\ \E rows \in {<<[id |-> "u1", username |-> "bob", password |-> "pw1",
                       deposit |-> 0, role |-> SELLER],
                      [id |-> "u2", username |-> "ann", password |-> "pw1",
                       deposit |-> 5 * MaxUnits, role |-> BUYER]>>,
                    <<[id |-> "u2", username |-> "ann", password |-> "pw1",
                       deposit |-> 5 * MaxUnits, role |-> BUYER],
                      [id |-> "u1", username |-> "bob", password |-> "pw1",
                       deposit |-> 0, role |-> SELLER]>>} :
          user_db = WriteCsv(rows)
    /\ product_db = WriteCsv(<<[productId |-> "p1", productName |-> "apple", cost |-> 5,
                                amountAvailable |-> MaxStock, sellerId |-> "u1"],
                               [productId |-> "p2", productName |-> "pear", cost |-> 10,
                                amountAvailable |-> MaxStock, sellerId |-> "u1"]>>)
    /\ last = Call("init", "", "", 0, "ok")
    /\ calls = [t \in Threads |-> Idle]
    /\ loop = NoLoop

AccountUpdatePassword ==
    \E username \in AccountNames, password \in PasswordInputs :
        \E r \in {update_password(user_db, username, password)} :
        /\ user_db' = r.db
        /\ last' = [Call("update_password", username, password, 0, r.err)
                    EXCEPT !.user = r.user]
        /\ UNCHANGED product_db

AccountDeposit ==
    \E username \in AccountNames, deposit \in DepositInputs :
        \E r \in {deposit_amount(user_db, username, deposit)} :
        /\ \A i \in 1..Len(r.db.rows) : r.db.rows[i].deposit <= 5 * MaxUnits
        /\ user_db' = r.db
        /\ last' = [Call("deposit_amount", username, "", deposit, r.err) EXCEPT !.user = r.user]
        /\ UNCHANGED product_db

AccountNext ==
    /\ \/ AccountUpdatePassword
       \/ AccountDeposit
       \/ ResetDeposit
       \/ ShopBuy
    /\ UNCHANGED <<calls, loop>>

SpecAccount == AccountInit /\ [][AccountNext]_vars

\* ----------------------------------------------------------- properties
\* the stored row of an account / a product (NoUser / NoProduct when absent)
UserRow(db, username) ==
    LET m == RowsWhere(db.rows, LAMBDA r : r.username = username) IN
    IF m = <<>> THEN NoUser ELSE m[1]

ProductRow(db, productId) ==
    LET m == RowsWhere(db.rows, LAMBDA r : r.productId = productId) IN
    IF m = <<>> THEN NoProduct ELSE m[1]

HasUser(db, username) == \E i \in 1..Len(db.rows) : db.rows[i].username = username
HasProduct(db, productId) == \E i \in 1..Len(db.rows) : db.rows[i].productId = productId

\* the exceptions of the checks the purchase makes before its first write
PreCommitErrors ==
    {"UserNotFoundException", "UserNotBuyerException", "ZeroDepositException",
     "ProductNotFoundException", "ProductAmountUnavailableException", "PurchaseException"}

Bought == last.op = "buy_product" /\ last.err = "ok"

\* C1: a buy_product call that one of the pre-commit checks rejects (unknown
\* buyer, seller role, zero deposit, unknown product, quantity above the
\* stock, deposit below cost * quantity) leaves both files, and so every
\* deposit and every amountAvailable, as they were.
C1_RejectedPurchaseChangesNothing ==
    [][(last'.op = "buy_product" /\ last'.stage = "checks" /\ last'.err \in PreCommitErrors)
       => (user_db' = user_db /\ product_db' = product_db)]_vars

\* a buyer with a deposit was refused a product in stock for lack of funds
C1_Witness ==
    /\ last.op = "buy_product" /\ last.stage = "checks" /\ last.err = "PurchaseException"
    /\ UserRow(user_db, last.who).deposit > 0
    /\ ProductRow(product_db, last.what).amountAvailable >= last.arg

\* C2: when take_product raises after the debit, the failed call leaves the
\* stock as it was, the handler brings the debited deposit back to the value
\* the call found, and the caller gets the purchase-failed error.
C2_FailedPurchaseIsRolledBack ==
    [][\A t \in Threads :
          /\ ( /\ calls[t].pc = "take_write" /\ calls'[t].pc = "take_return"
               /\ take_product(calls[t].frame, user_db, calls[t].product_obj.productId,
                               calls[t].no_of_products).err # "ok" )
             => product_db' = product_db
          /\ ( /\ calls[t].pc = "reimburse_write" /\ calls'[t].pc = "reimburse_return"
               /\ calls[t].debited
               /\ HasUser(user_db, calls[t].username)
               /\ UserRow(user_db, calls[t].username).deposit
                     = calls[t].deposit0
                       - calls[t].product_obj.cost * calls[t].no_of_products )
             => UserRow(user_db', calls[t].username).deposit = calls[t].deposit0
          /\ ( /\ calls[t].pc = "reimburse_return" /\ calls'[t].pc = "idle"
               /\ calls[t].debited )
             => (last'.err = "UserNotUpdatedException" /\ last'.stage = "reimbursed")]_vars

\* C3: a successful buy_product(buyer, product, q) returns cost * q as total
\* spent and a product snapshot with amountAvailable lowered by q; the stored
\* deposit is lowered by cost * q and the stored amountAvailable by q.
C3_SuccessfulPurchaseEffect ==
    [][(last'.op = "buy_product" /\ last'.err = "ok")
       => LET q == last'.arg
              u == UserRow(user_db, last'.who)
              pr == ProductRow(product_db, last'.what)
          IN  /\ last'.total = pr.cost * q
              /\ last'.product.amountAvailable = pr.amountAvailable - q
              /\ UserRow(user_db', last'.who).deposit = u.deposit - pr.cost * q
              /\ ProductRow(product_db', last'.what).amountAvailable = pr.amountAvailable - q]_vars

\* two units were bought at once and paid for
C3_Witness ==
    /\ Bought /\ last.arg = 2 /\ last.total = 10
    /\ HasProduct(product_db, last.what)

\* C4: buy_product with a quantity of zero or less is rejected and leaves the
\* buyer's deposit and the product's amountAvailable as they were.
C4_NonPositiveQuantityRejected ==
    [][(last'.op = "buy_product" /\ last'.arg <= 0)
       => (last'.err # "ok" /\ user_db' = user_db /\ product_db' = product_db)]_vars

\* what one call may do to the deposit of an account that it leaves stored
MoneyStep(username) ==
    LET before == UserRow(user_db, username).deposit
        after == UserRow(user_db', username).deposit
    IN  IF last'.who = username /\ last'.err = "ok" /\ last'.op = "deposit_amount"
        THEN after = before + last'.arg
        ELSE IF last'.who = username /\ last'.err = "ok" /\ last'.op = "buy_product"
        THEN after = before - last'.total /\ after <= before
        ELSE IF last'.who = username /\ last'.err = "ok" /\ last'.op = "reset_deposit"
        THEN after = 0
        ELSE after = before

\* C5: conservation of money: a deposit grows by the coin of each accepted
\* deposit_amount, shrinks by cost * quantity of each successful purchase,
\* is zeroed by reset_deposit, changes in no other call and in no failed
\* call, and is never raised by a purchase.
C5_ConservationOfMoney ==
    [][\A username \in UserNames :
          (HasUser(user_db, username) /\ HasUser(user_db', username))
          => /\ MoneyStep(username)
             /\ last'.op = "buy_product"
                => UserRow(user_db', username).deposit <= UserRow(user_db, username).deposit]_vars

\* what one call may do to the amountAvailable of a product it leaves stored
StockStep(productId) ==
    LET before == ProductRow(product_db, productId)
        after == ProductRow(product_db', productId).amountAvailable
    IN  /\ after # before.amountAvailable
           => \/ last'.op = "update_product_amountAvailable" /\ last'.who = before.sellerId
              \/ /\ last'.op = "buy_product" /\ last'.err = "ok" /\ last'.what = productId
                 /\ after = before.amountAvailable - last'.arg
        /\ last'.op = "buy_product" => after <= before.amountAvailable

\* C6: conservation of inventory: amountAvailable changes only through the
\* owning seller's update_product_amountAvailable or through a successful
\* purchase, which lowers it by the purchased quantity; no purchase raises it.
C6_ConservationOfInventory ==
    [][\A productId \in ProductIds :
          (HasProduct(product_db, productId) /\ HasProduct(product_db', productId))
          => StockStep(productId)]_vars

\* C7: every stored account's deposit is at least 0.
C7_DepositNeverNegative ==
    \A i \in 1..Len(user_db.rows) : user_db.rows[i].deposit >= 0

\* a purchase has spent a whole deposit
C7_Witness ==
    /\ Bought /\ last.total > 0
    /\ HasUser(user_db, last.who) /\ UserRow(user_db, last.who).deposit = 0

\* C8: every stored product's amountAvailable is at least 0.
C8_StockNeverNegative ==
    \A i \in 1..Len(product_db.rows) : product_db.rows[i].amountAvailable >= 0

\* C9: the change of a successful purchase is the coin decomposition of the
\* deposit that remains after the debit: every coin is one of 5, 10, 20, 50,
\* 100, the coins sum to the stored deposit, and the stored deposit is the
\* old deposit less cost * quantity (it is not zeroed).
C9_ChangeIsRemainingDeposit ==
    [][(last'.op = "buy_product" /\ last'.err = "ok")
       => LET u == UserRow(user_db, last'.who)
              pr == ProductRow(product_db, last'.what)
              left == UserRow(user_db', last'.who).deposit
          IN  /\ \A i \in 1..Len(last'.change) : last'.change[i] \in {5, 10, 20, 50, 100}
              /\ SumSeq(last'.change) = left
              /\ left = u.deposit - pr.cost * last'.arg]_vars

\* 5 was spent out of 15 and the change is the 10 that remains
C9_Witness ==
    /\ Bought /\ last.total = 5 /\ last.change = <<10>>
    /\ UserRow(user_db, last.who).deposit = 10

\* C10 as stated: for every amount n >= 0 the coins the loop returns sum to n;
\* 65 gives [50, 10, 5] and 0 gives the empty list.
C10_ChangeSumsToAnyAmount ==
    LoopDone => /\ SumSeq(loop.change) = loop.n
                /\ loop.n = 65 => loop.change = <<50, 10, 5>>
                /\ loop.n = 0 => loop.change = <<>>

\* C10: for every amount n >= 0 that is a multiple of 5 the coins the loop
\* returns sum to n; 65 gives [50, 10, 5] and 0 gives the empty list.
C10_ChangeSumsToMultipleOfFive ==
    (LoopDone /\ loop.n % 5 = 0)
    => /\ SumSeq(loop.change) = loop.n
       /\ loop.n = 65 => loop.change = <<50, 10, 5>>
       /\ loop.n = 0 => loop.change = <<>>

\* the loop has run on 65
C10_Witness == LoopDone /\ loop.n = 65 /\ loop.change = <<50, 10, 5>>

\* C11: buy_product by a stored buyer whose deposit is 0 raises
\* ZeroDepositException whatever the product (stored or not), its cost, its
\* stock and the quantity, and leaves both files as they were; so it does
\* right after a purchase that spent the whole deposit.
C11_ZeroDepositRejected ==
    [][(/\ last'.op = "buy_product"
        /\ HasUser(user_db, last'.who)
        /\ UserRow(user_db, last'.who).role = BUYER
        /\ UserRow(user_db, last'.who).deposit = 0)
       => (/\ last'.err = "ZeroDepositException"
           /\ user_db' = user_db /\ product_db' = product_db)]_vars

\* a buyer without deposit was refused a free product that is in stock
C11_Witness ==
    /\ last.op = "buy_product" /\ last.err = "ZeroDepositException" /\ last.arg >= 1
    /\ HasProduct(product_db, last.what)
    /\ ProductRow(product_db, last.what).cost = 0
    /\ ProductRow(product_db, last.what).amountAvailable >= last.arg

\* the coins deposit_amount accepts
Coins == {5, 10, 20, 50, 100}

\* C12: deposit_amount of a coin by a stored buyer raises that buyer's stored
\* deposit by exactly the coin and returns the account with the new balance;
\* no other stored account changes. (So a run of deposits adds up: 5, 10 and
\* 20 from 0 give 35.)
C12_DepositAddsCoin ==
    [][(/\ last'.op = "deposit_amount"
        /\ HasUser(user_db, last'.who)
        /\ UserRow(user_db, last'.who).role = BUYER
        /\ last'.arg \in Coins)
       => (/\ last'.err = "ok"
           /\ UserRow(user_db', last'.who).deposit
                 = UserRow(user_db, last'.who).deposit + last'.arg
           /\ last'.user.deposit = UserRow(user_db, last'.who).deposit + last'.arg
           /\ Len(user_db'.rows) = Len(user_db.rows)
           /\ \A i \in 1..Len(user_db.rows) :
                 user_db.rows[i].username # last'.who => user_db'.rows[i] = user_db.rows[i])]_vars

\* a deposit of 20 brought ann to 35 and left the other accounts at 0
C12_Witness ==
    /\ last.op = "deposit_amount" /\ last.err = "ok" /\ last.who = "ann" /\ last.arg = 20
    /\ last.user.deposit = 35
    /\ UserRow(user_db, "ann").deposit = 35
    /\ UserRow(user_db, "cat").deposit = 0
    /\ UserRow(user_db, "bob").deposit = 0

\* C13: deposit_amount by a stored buyer with an amount that is none of the
\* five coins (0 and negative amounts too) raises NonAllowedDepositException
\* and leaves the stored accounts as they were.
C13_NonCoinRejected ==
    [][(/\ last'.op = "deposit_amount"
        /\ HasUser(user_db, last'.who)
        /\ UserRow(user_db, last'.who).role = BUYER
        /\ last'.arg \notin Coins)
       => (last'.err = "NonAllowedDepositException" /\ user_db' = user_db)]_vars

\* C14: every stored SELLER account has deposit 0: deposit_amount on a seller
\* raises UserNotBuyerException and changes nothing, and no deposit, purchase,
\* reimbursement or reset leaves a seller with a non-zero deposit.
C14_SellerDepositIsZero ==
    [][/\ \A i \in 1..Len(user_db'.rows) :
             user_db'.rows[i].role = SELLER => user_db'.rows[i].deposit = 0
       /\ (/\ last'.op = "deposit_amount"
           /\ HasUser(user_db, last'.who)
           /\ UserRow(user_db, last'.who).role = SELLER)
          => (last'.err = "UserNotBuyerException" /\ user_db' = user_db)]_vars

\* the product is stored and get_product returns it: its row passes the
\* validators of ProductModel
Resolvable(productId) ==
    /\ HasProduct(product_db, productId)
    /\ ProductModelErr(ProductRow(product_db, productId), user_db) = "ok"

\* the error of the first check of buy_product that fails, in the order
\* buyer exists, buyer role, zero deposit, product exists, stock, funds, told
\* from the stored files the call starts from; "" when none of them fails
\* (a stored row that get_product cannot validate makes get_product raise an
\* error of its own at the fourth step; the stock and funds checks are made
\* on the product get_product returns)
FirstCheckError(username, productId, q) ==
    LET u == UserRow(user_db, username)
        pr == ProductRow(product_db, productId)
    IN  IF ~HasUser(user_db, username)
        THEN (IF user_db.hdr THEN "UserNotFoundException" ELSE "")
        ELSE IF u.role = SELLER THEN "UserNotBuyerException"
        ELSE IF u.deposit = 0 THEN "ZeroDepositException"
        ELSE IF ~HasProduct(product_db, productId)
        THEN (IF product_db.hdr THEN "ProductNotFoundException" ELSE "")
        ELSE IF ~Resolvable(productId) THEN ""
        ELSE IF pr.amountAvailable < q THEN "ProductAmountUnavailableException"
        ELSE IF u.deposit < pr.cost * q THEN "PurchaseException"
        ELSE ""

\* C15: buy_product reports the error of the first check that fails, in the
\* order buyer exists, buyer role, zero deposit, product exists, stock,
\* funds: no error of a later check is reported while an earlier check
\* fails. A seller gets UserNotBuyerException and a buyer without deposit
\* ZeroDepositException also for a product that is not stored, and a request
\* above both the stock and the funds gets ProductAmountUnavailableException.
C15_FirstFailingCheckReported ==
    [][last'.op = "buy_product"
       => LET e == FirstCheckError(last'.who, last'.what, last'.arg) IN
          e # "" => last'.err = e]_vars

\* a request above both the stock and the funds was refused for the stock
C15_Witness ==
    /\ last.op = "buy_product" /\ last.err = "ProductAmountUnavailableException"
    /\ HasProduct(product_db, last.what) /\ HasUser(user_db, last.who)
    /\ ProductRow(product_db, last.what).amountAvailable < last.arg
    /\ UserRow(user_db, last.who).deposit > 0
    /\ UserRow(user_db, last.who).deposit < ProductRow(product_db, last.what).cost * last.arg

\* C16: of the concurrent buy_product calls for one unit of a product with
\* amountAvailable = 1, by buyers who can each pay for it, one succeeds and
\* every other one raises ProductAmountUnavailableException; when all have
\* returned the stock is 0 and only the buyer who got the unit is debited.
\* Stated on the steps of a run from one unit in stock: a call for one unit
\* that returns after its checks either succeeds or raises
\* ProductAmountUnavailableException, and whenever no call is in flight the
\* deposits together are short of what they were by the cost of the units
\* that left the stock.
C16_OneUnitOneWinner ==
    [][/\ \A t \in Threads :
             (calls[t].pc # "idle" /\ calls'[t].pc = "idle" /\ calls[t].no_of_products = 1)
             => last'.err \in {"ok", "ProductAmountUnavailableException"}
       /\ (\A t \in Threads : calls'[t].pc = "idle")
          => LET pr == ProductRow(product_db', "p1") IN
             /\ pr.amountAvailable \in {0, 1}
             /\ UserRow(user_db', "ann").deposit + UserRow(user_db', "bob").deposit
                   = 2 * 5 * MaxUnits - pr.cost * (1 - pr.amountAvailable)]_vars

\* the stored row of a seller's product, by name
ProductNamed(db, productName) ==
    LET m == RowsWhere(db.rows, LAMBDA r : r.productName = productName) IN
    IF m = <<>> THEN NoProduct ELSE m[1]

\* C17: two mutations of different records that run concurrently, their
\* reads and writes interleaved, do not lose each other's update: once both
\* calls (deposit_amount for ann and for bob, update_product_amountAvailable
\* for apple and for pear, or one of each) have returned, each record holds
\* what its own call set.
C17_NoLostUpdate ==
    (\A t \in Threads : calls[t].pc = "done")
    => \A t \in Threads :
          IF calls[t].op = "deposit_amount"
          THEN UserRow(user_db, RaceBuyer(t)).deposit = calls[t].arg
          ELSE ProductNamed(product_db, MutationProduct(t)).amountAvailable = calls[t].arg

\* C18: while a purchase is between its debit and its reimbursement (its
\* take_product raised), no other call reads the debited balance: the
\* deposit another buy_product call of that buyer reads in that window is the
\* balance the purchase started from, which is also the balance the
\* reimbursement restores.
C18_DebitedBalanceNotObserved ==
    [][\A t \in Threads, o \in Threads :
          (/\ t # o
           /\ calls[t].pc \in {"reimburse", "reimburse_write"} /\ calls[t].debited
           /\ calls[o].pc = "idle" /\ calls'[o].pc = "get_product"
           /\ calls'[o].username = calls[t].username)
          => calls'[o].deposit0 = calls[t].deposit0]_vars

\* C19: a failed purchase whose reimbursement failed is reported with an
\* error kind other than the one of a failed purchase whose reimbursement
\* succeeded (UserNotUpdatedException, line 377).
C19_ReimbursementFailureDistinct ==
    (last.op = "buy_product" /\ last.stage = "not_reimbursed")
    => last.err # "UserNotUpdatedException"

\* C20: create_new_user for a username that is stored raises
\* UserExistsException and adds no row, and no two stored accounts share a
\* username.
C20_UsernameUnique ==
    [][/\ (last'.op = "create_new_user" /\ HasUser(user_db, last'.who))
          => (last'.err = "UserExistsException" /\ user_db' = user_db)
       /\ \A i, j \in 1..Len(user_db'.rows) :
             user_db'.rows[i].username = user_db'.rows[j].username => i = j]_vars

\* a stored product of that seller and name
HasOwned(db, sellerId, productName) ==
    \E i \in 1..Len(db.rows) : Owned(sellerId, productName, db.rows[i])

\* C21: create_new_product for a (sellerId, productName) pair that is stored
\* raises ProductExistsException and adds no row; no two stored products
\* share a (sellerId, productName) pair; a name stored for one seller does
\* not keep another seller from creating a product of that name.
C21_ProductPairUnique ==
    [][/\ (last'.op = "create_new_product" /\ HasOwned(product_db, last'.who, last'.what))
          => (last'.err = "ProductExistsException" /\ product_db' = product_db)
       /\ \A i, j \in 1..Len(product_db'.rows) :
             (/\ product_db'.rows[i].sellerId = product_db'.rows[j].sellerId
              /\ product_db'.rows[i].productName = product_db'.rows[j].productName)
             => i = j
       /\ (/\ last'.op = "create_new_product" /\ last'.who \in StoredUserIds
           /\ ~HasOwned(product_db, last'.who, last'.what))
          => (last'.err = "ok" /\ HasOwned(product_db', last'.who, last'.what))]_vars

\* a cost the catalog admits: a positive multiple of 5
ValidCost(cost) == cost > 0 /\ cost % 5 = 0

\* C22: create_new_product with a cost that is not a positive multiple of 5,
\* or with a negative amountAvailable, fails, and a failing call stores no
\* product: the catalog is as it was.
C22_InvalidProductNotStored ==
    [][last'.op = "create_new_product"
       => /\ ~ValidCost(last'.arg) => last'.err # "ok"
          /\ last'.err # "ok" => product_db' = product_db
          /\ \A i \in 1..Len(product_db'.rows) :
                i > Len(product_db.rows)
                => (ValidCost(product_db'.rows[i].cost)
                    /\ product_db'.rows[i].amountAvailable >= 0)]_vars

\* C23: every stored product's cost is a positive multiple of 5, whatever
\* create_new_product and update_product_cost calls were made, failed ones
\* included.
C23_StoredCostValid ==
    \A i \in 1..Len(product_db.rows) : ValidCost(product_db.rows[i].cost)

\* C25: the sellerId of every stored product is the id of a stored account
\* whose role is SELLER.
C25_OwnerIsSeller ==
    \A i \in 1..Len(product_db.rows) :
        \E j \in 1..Len(user_db.rows) :
            /\ user_db.rows[j].id = product_db.rows[i].sellerId
            /\ user_db.rows[j].role = SELLER

SellerOps == {"update_product_cost", "update_product_amountAvailable", "delete_product"}

\* C24: update_product_cost, update_product_amountAvailable and
\* delete_product act on the product of the given name that the given
\* sellerId owns. Called by a sellerId that owns no product of that name
\* (another seller may, and the caller may own other products) they fail and
\* leave the catalog as it was; in every call the products of other sellers
\* and the caller's products of other names stay stored and unchanged.
C24_OnlyOwnerMutates ==
    [][last'.op \in SellerOps
       => /\ ~HasOwned(product_db, last'.who, last'.what)
             => (last'.err # "ok" /\ product_db' = product_db)
          /\ \A i \in 1..Len(product_db.rows) :
                ~Owned(last'.who, last'.what, product_db.rows[i])
                => \E j \in 1..Len(product_db'.rows) :
                      product_db'.rows[j] = product_db.rows[i]]_vars

\* a seller who owns a product was refused the update of a product of
\* another name that the other seller owns
C24_Witness ==
    /\ last.op = "update_product_cost" /\ last.err # "ok"
    /\ \E i \in 1..Len(product_db.rows) : product_db.rows[i].sellerId = last.who
    /\ ~HasOwned(product_db, last.who, last.what)
    /\ \E i \in 1..Len(product_db.rows) :
          /\ product_db.rows[i].productName = last.what
          /\ product_db.rows[i].sellerId \in StoredUserIds \ {last.who}

\* C26: delete_user of a stored account succeeds whatever its deposit,
\* removes that account's row and no other, and leaves the other rows as
\* they were; from then on get_user of that username raises
\* UserNotFoundException, and so does every buy_product call made for a
\* username that is not stored, which changes nothing.
C26_DeleteUserUnconditional ==
    [][/\ (last'.op = "delete_user" /\ HasUser(user_db, last'.who))
          => /\ last'.err = "ok"
             /\ ~HasUser(user_db', last'.who)
             /\ Len(user_db'.rows) = Len(user_db.rows) - 1
             /\ \A i \in 1..Len(user_db.rows) :
                   user_db.rows[i].username # last'.who
                   => \E j \in 1..Len(user_db'.rows) : user_db'.rows[j] = user_db.rows[i]
             /\ get_user(user_db', last'.who).err = "UserNotFoundException"
       /\ (last'.op = "buy_product" /\ user_db.hdr /\ ~HasUser(user_db, last'.who))
          => /\ last'.err = "UserNotFoundException"
             /\ user_db' = user_db /\ product_db' = product_db]_vars

\* an account was deleted and the other account is still stored
C26_Witness ==
    /\ last.op = "delete_user" /\ last.err = "ok"
    /\ ~HasUser(user_db, last.who)
    /\ Len(user_db.rows) = 1

\* C27: buy_product calls of one buyer that run concurrently, each passing
\* the funds check before the other's debit is written, never debit more
\* than the balance: no stored account's deposit is below 0, at any step.
C27_NoConcurrentOverdraft ==
    \A username \in UserNames :
        HasUser(user_db, username) => UserRow(user_db, username).deposit >= 0

\* C28: deduct_amount of an amount above the stored deposit of a buyer
\* fails and leaves the stored accounts as they were; no deduct_amount call
\* leaves a negative deposit stored.
C28_DeductNeverOverdraws ==
    [][last'.op = "deduct_amount"
       => /\ (/\ HasUser(user_db, last'.who)
              /\ UserRow(user_db, last'.who).role = BUYER
              /\ last'.arg > UserRow(user_db, last'.who).deposit)
             => (last'.err # "ok" /\ user_db' = user_db)
          /\ \A i \in 1..Len(user_db'.rows) :
                user_db.rows[i].deposit >= 0 => user_db'.rows[i].deposit >= 0]_vars

\* C29: a purchase at the boundary succeeds: buy_product by a stored buyer
\* of a quantity q >= 1 equal to the amountAvailable of a product that
\* get_product returns, with cost > 0 and a deposit of exactly cost * q,
\* succeeds, leaves amountAvailable 0 and deposit 0, and returns no change.
C29_BoundaryPurchaseSucceeds ==
    [][(/\ last'.op = "buy_product"
        /\ last'.arg >= 1
        /\ HasUser(user_db, last'.who)
        /\ UserRow(user_db, last'.who).role = BUYER
        /\ Resolvable(last'.what)
        /\ ProductRow(product_db, last'.what).amountAvailable = last'.arg
        /\ ProductRow(product_db, last'.what).cost > 0
        /\ UserRow(user_db, last'.who).deposit
              = ProductRow(product_db, last'.what).cost * last'.arg)
       => (/\ last'.err = "ok"
           /\ ProductRow(product_db', last'.what).amountAvailable = 0
           /\ UserRow(user_db', last'.who).deposit = 0
           /\ last'.change = <<>>)]_vars

\* the last two units were bought with the whole deposit
C29_Witness ==
    /\ Bought /\ last.arg = 2 /\ last.total = 10 /\ last.change = <<>>
    /\ HasProduct(product_db, last.what)
    /\ ProductRow(product_db, last.what).amountAvailable = 0
    /\ HasUser(user_db, last.who) /\ UserRow(user_db, last.who).deposit = 0

\* the numbers of coins of the lists of coins from {5,10,20,50,100} that sum
\* to n: the 100s, 50s, 20s and 10s are chosen, the rest is paid in 5s
CoinCounts(n) ==
    { a + b + c + d + ((n - 100 * a - 50 * b - 20 * c - 10 * d) \div 5) :
        <<a, b, c, d>> \in
            { t \in (0..(n \div 100)) \X (0..(n \div 50))
                      \X (0..(n \div 20)) \X (0..(n \div 10)) :
                100 * t[1] + 50 * t[2] + 20 * t[3] + 10 * t[4] <= n } }

NonIncreasing(s) == \A i \in 1..(Len(s) - 1) : s[i] >= s[i + 1]

\* C30: for every amount n >= 0 that is a multiple of 5 the change the loop
\* returns lists its coins largest first (non-increasing), every coin is one
\* of {5,10,20,50,100}, and no list of such coins summing to n is shorter.
C30_ChangeSortedAndMinimal ==
    (LoopDone /\ loop.n % 5 = 0)
    => /\ NonIncreasing(loop.change)
       /\ \A i \in 1..Len(loop.change) : loop.change[i] \in Coins
       /\ Len(loop.change) \in CoinCounts(loop.n)
       /\ \A m \in CoinCounts(loop.n) : Len(loop.change) <= m

\* the loop has run on 115, which takes one coin of every denomination but 20
C30_Witness == LoopDone /\ loop.n = 115 /\ loop.change = <<100, 10, 5>>

\* C31: every buy_product call in flight, whatever the other thread's call
\* and delete_product do between its store calls, returns to its caller
\* with a result or an exception (its thread is idle again): no call waits
\* for ever, for a lock or for another call.
C31_EveryCallReturns ==
    \A t \in Threads : (calls[t].pc # "idle") ~> (calls[t].pc = "idle")

\* a call went through its handler and returned while the other thread's
\* call was in flight
C31_Witness ==
    /\ last.op = "buy_product" /\ last.stage \in {"reimbursed", "not_reimbursed"}
    /\ \E t \in Threads : calls[t].pc \in {"get_product_return", "deduct_write", "take_write",
                                            "take_return", "reimburse_write",
                                            "reimburse_return"}

\* the rows of new are the rows of old, in the same order, but for the field
\* deposit of the rows of the username
SameAccountsButDeposit(old, new, username) ==
    /\ Len(new.rows) = Len(old.rows)
    /\ \A i \in 1..Len(old.rows) :
          IF old.rows[i].username = username
          THEN [new.rows[i] EXCEPT !.deposit = old.rows[i].deposit] = old.rows[i]
          ELSE new.rows[i] = old.rows[i]

\* the same for the field amountAvailable of the rows of the productId
SameProductsButAmount(old, new, productId) ==
    /\ Len(new.rows) = Len(old.rows)
    /\ \A i \in 1..Len(old.rows) :
          IF old.rows[i].productId = productId
          THEN [new.rows[i] EXCEPT !.amountAvailable = old.rows[i].amountAvailable]
                  = old.rows[i]
          ELSE new.rows[i] = old.rows[i]

\* C32: a buy_product call, whether it returns or raises, changes nothing but
\* the deposit of the calling buyer and the amountAvailable of the product
\* bought: no row is added or removed, every other account and product is
\* as it was, and so are the id, username, password and role of the buyer
\* and the productId, productName, cost and sellerId of the product.
C32_BuyFrame ==
    [][last'.op = "buy_product"
       => /\ SameAccountsButDeposit(user_db, user_db', last'.who)
          /\ SameProductsButAmount(product_db, product_db', last'.what)]_vars

\* a purchase of pears went through while apples were in stock too
C32_Witness ==
    /\ Bought /\ last.what = "p2" /\ last.total = 10
    /\ Len(user_db.rows) = 2 /\ Len(product_db.rows) = 2
    /\ product_db.rows[1].amountAvailable > 0

\* the rows of new are the rows of old, in the same order, but for the field
\* password of the rows of the username
SameAccountsButPassword(old, new, username) ==
    /\ Len(new.rows) = Len(old.rows)
    /\ \A i \in 1..Len(old.rows) :
          IF old.rows[i].username = username
          THEN [new.rows[i] EXCEPT !.password = old.rows[i].password] = old.rows[i]
          ELSE new.rows[i] = old.rows[i]

\* C33: update_password changes nothing but the password of the account it
\* names (id, deposit and role of that account and every other account are
\* as they were), the account it returns holds the new password, and
\* deposit_amount, reset_deposit and buy_product leave the id, username,
\* password and role of every account as they were.
C33_AccountFrame ==
    [][/\ last'.op = "update_password"
          => /\ SameAccountsButPassword(user_db, user_db', last'.who)
             /\ (last'.err = "ok" /\ last'.what # NoPassword)
                => /\ last'.user.password = last'.what
                   /\ UserRow(user_db', last'.who) = last'.user
       /\ last'.op \in {"deposit_amount", "reset_deposit", "buy_product"}
          => \E username \in AccountNames :
                SameAccountsButDeposit(user_db, user_db', username)]_vars

\* ann, whose password was changed and who had bought an apple, had her
\* deposit reset by a reset_deposit call that wrote the file; bob's
\* password was not changed
C33_Witness ==
    /\ last.op = "reset_deposit" /\ last.who = "ann" /\ last.err = "ok"
    /\ last.user.deposit = 0 /\ last.user.password = "pw2"
    /\ UserRow(user_db, "ann") = last.user
    /\ UserRow(user_db, "bob").password = "pw1"
    /\ ProductRow(product_db, "p1").amountAvailable = MaxStock - 1

\* the stored row of the product of that name that the seller owns
OwnedRow(db, sellerId, productName) ==
    LET m == RowsWhere(db.rows, LAMBDA r : Owned(sellerId, productName, r)) IN
    IF m = <<>> THEN NoProduct ELSE m[1]

\* C34: update_product_cost called by the seller, a stored account, who owns
\* a product of the given name, with a valid cost, sets the cost of that product and nothing
\* else: its productId, productName, amountAvailable and sellerId and every
\* other row (a product of the same name of another seller included) are as
\* they were, and the call returns the stored, updated row. The same holds
\* of update_product_amountAvailable and the field amountAvailable.
C34_UpdateFrame ==
    [][(/\ last'.op \in {"update_product_cost", "update_product_amountAvailable"}
        /\ last'.who \in StoredUserIds
        /\ HasOwned(product_db, last'.who, last'.what))
       => /\ Len(product_db'.rows) = Len(product_db.rows)
          /\ \A i \in 1..Len(product_db.rows) :
                product_db'.rows[i] =
                   IF ~Owned(last'.who, last'.what, product_db.rows[i])
                   THEN product_db.rows[i]
                   ELSE IF last'.op = "update_product_cost"
                        THEN [product_db.rows[i] EXCEPT !.cost = last'.arg]
                        ELSE [product_db.rows[i] EXCEPT !.amountAvailable = last'.arg]
          /\ last'.err = "ok"
          /\ last'.product = OwnedRow(product_db', last'.who, last'.what)]_vars

\* a seller changed the amount of their apples while the other seller's
\* apples, of another cost and amount, were stored
C34_Witness ==
    /\ last.op = "update_product_amountAvailable" /\ last.err = "ok" /\ last.what = "apple"
    /\ last.arg = 1 /\ last.product.amountAvailable = 1 /\ last.product.cost = 5
    /\ \E i \in 1..Len(product_db.rows) :
          /\ product_db.rows[i].productName = "apple"
          /\ product_db.rows[i].sellerId # last.who
          /\ product_db.rows[i].amountAvailable = 0
          /\ product_db.rows[i].cost = 10

\* C35: in every reachable state the stored deposit of every account is a
\* multiple of 5 (the amounts on which the change loop leaves no remainder).
C35_DepositMultipleOfFive ==
    \A i \in 1..Len(user_db.rows) : user_db.rows[i].deposit % 5 = 0

\* a deposit of 3 was refused to a buyer who holds coins, while a product
\* whose stored cost is no multiple of 5 is in the catalog
C35_Witness ==
    /\ last.op = "deposit_amount" /\ last.arg = 3 /\ last.err # "ok"
    /\ HasUser(user_db, last.who) /\ UserRow(user_db, last.who).deposit > 0
    /\ \E i \in 1..Len(product_db.rows) : product_db.rows[i].cost = 3

\* C36: the total spent that a successful buy_product returns is the amount
\* the call debited from the buyer's deposit (the cost it read with
\* get_product times the quantity), also when update_product_cost runs
\* between its get_product and its take_product.
C36_TotalIsDebited ==
    [][\A t \in Threads :
          (calls[t].pc = "take_return" /\ calls'[t].pc = "idle" /\ last'.err = "ok")
          => last'.total = calls[t].product_obj.cost * calls[t].no_of_products]_vars

\* C37: in every reachable state the sellerId of every stored product is the
\* id of a stored account, also after delete_user of an account that owns
\* products (so that get_product and buy_product still find the seller).
\* Stated of the products whose cost and amountAvailable the validators
\* accept.
C37_SellerStillExists ==
    \A i \in 1..Len(product_db.rows) :
        (ValidCost(product_db.rows[i].cost) /\ product_db.rows[i].amountAvailable >= 0)
        => product_db.rows[i].sellerId \in StoredUserIds
====
